---- MODULE Spec2Model ----
(***************************************************************************)
(* Polling / caching / aggregation pipeline of GitHub-Kanban:              *)
(*   GitHubClient     (src/src/github/client.ts)                           *)
(*   UpdateScheduler  (src/src/services/scheduler.ts)                      *)
(*   feed builder     (src/src/services/feed.ts)                           *)
(*   MemoryStore      (src/src/store/memory.ts), main (src/src/main.ts)    *)
(*                                                                         *)
(* One step of the model is one run-to-completion job of the JavaScript    *)
(* event loop: a timer callback or the continuation that a settled fetch   *)
(* resumes, followed by every synchronous continuation it unblocks.        *)
(* Optional values are sequences of length 0 or 1; a Map whose iteration   *)
(* order is observable is a sequence of entries in insertion order.        *)
(***************************************************************************)
EXTENDS Integers, Sequences, FiniteSets, TLC

\* ---------------------------------------------------------------- bounds
\* configured feedLimit ranges over 0..MaxLimit
MaxLimit == 2
\* number of upstream changes (new metadata / new event page) in a run
MaxChanges == 1
\* number of upstream calls that end in an error status or transport failure
\* (a run has failing calls or overlapping ticks, not both)
MaxFails == 1
\* number of ticks in a run that start while an earlier tick is still in flight
MaxOverlaps == 1
\* number of commits carried by the large push event
BigPush == 7

\* ------------------------------------------------------- program constants
\* scheduler.ts:87  .slice(0, 5)
StatFanout == 5

\* ------------------------------------------------------------ small helpers
Min(a, b) == IF a < b THEN a ELSE b

Range(s) == {s[i] : i \in DOMAIN s}

\* Array.prototype.slice(0, n) for an integer n >= 0
Slice0(s, n) == SubSeq(s, 1, Min(n, Len(s)))

\* Array.prototype.flat() / flatMap: concatenation of a sequence of sequences
RECURSIVE Flat(_)
Flat(ss) == IF ss = <<>> THEN <<>> ELSE Head(ss) \o Flat(Tail(ss))

\* Array.prototype.filter is Sequences!SelectSeq

RemoveAt(s, i) == SubSeq(s, 1, i - 1) \o SubSeq(s, i + 1, Len(s))

\* Map.set on a map kept as a function
MapSet(m, k, v) == [x \in DOMAIN m \cup {k} |-> IF x = k THEN v ELSE m[x]]

\* Map kept in insertion order: has / get / set / values
OHas(m, k) == \E i \in DOMAIN m : m[i].key = k
OGet(m, k) == m[CHOOSE i \in DOMAIN m : m[i].key = k].val
OSet(m, k, v) ==
    IF OHas(m, k)
    THEN [i \in DOMAIN m |-> IF m[i].key = k THEN [key |-> k, val |-> v] ELSE m[i]]
    ELSE Append(m, [key |-> k, val |-> v])
OValues(m) == [i \in DOMAIN m |-> m[i].val]

\* ------------------------------------------------------------ configuration
\* cfg.repos: the configured repositories, in configuration order
CfgRepos == << [id |-> "o/a", name |-> "A"],
               [id |-> "o/b", name |-> "B"] >>

RepoIds == {CfgRepos[i].id : i \in DOMAIN CfgRepos}

\* ---------------------------------------------------------------- upstream
\* A commit as it appears in a push payload; message is absent in a malformed
\* payload.  SHAs are opaque: integers stand for them.
Commit(sha, msg) == [sha |-> sha, message |-> msg, author |-> <<"dev">>]

GoodCommit(sha) == Commit(sha, << <<"subject", "body">> >>)

\* A raw event as upstream serves it (no __repo yet).
\* commits is <<"absent">>, <<"list", seq of commits>>, or <<"bad">> for a
\* truthy value that is neither iterable nor has a map method.
RawEvent(type, t, commits) ==
    [ type       |-> type,
      created_at |-> t,
      actor      |-> <<"alice">>,
      payload    |-> [ commits |-> commits,
                       ref     |-> <<"refs/heads/main">>,
                       action  |-> "closed",
                       number  |-> "7",
                       title   |-> <<"T">>,
                       merged  |-> TRUE,
                       ref_type |-> "branch" ] ]

PushEv(t, commits) == RawEvent(<<"PushEvent">>, t, <<"list", commits>>)

\* the large push: BigPush commits with SHAs 101, 102, ...
BigPushEv(t) == PushEv(t, [i \in 1..BigPush |-> GoodCommit(100 + i)])

\* The event pages upstream can serve for a repository, by page id.  A later
\* page can still hold events of an earlier one, and one SHA can be pushed
\* to two branches.
Pages(r) ==
    IF r = "o/a"
    THEN << << PushEv(5, <<GoodCommit(1), GoodCommit(2)>>),
               RawEvent(<<"IssuesEvent">>, 2, <<"absent">>) >>,
            << BigPushEv(6) >>,
            << >> >>
    ELSE << << RawEvent(<<"WatchEvent">>, 5, <<"absent">>),
               PushEv(3, <<GoodCommit(3), Commit(4, <<>>)>>) >>,
            << RawEvent(<<"PullRequestEvent">>, 8, <<"absent">>),
               PushEv(6, <<GoodCommit(5), GoodCommit(3)>>),
               PushEv(3, <<GoodCommit(3), Commit(4, <<>>)>>),
               RawEvent(<<>>, 2, <<"absent">>) >>,
            << RawEvent(<<"PushEvent">>, 7, <<"bad">>),
               RawEvent(<<"WatchEvent">>, 5, <<"absent">>) >> >>

\* The upstream versions of a repository: metadata timestamp (the updated_at
\* field) and the id of the event page.  Upstream starts at version 1 and
\* moves to later versions.
History(r) ==
    IF r = "o/a"
    THEN << [at |-> 1, page |-> 1], [at |-> 4, page |-> 2], [at |-> 1, page |-> 3] >>
    ELSE << [at |-> 2, page |-> 1], [at |-> 3, page |-> 2], [at |-> 2, page |-> 3] >>

\* The commit resource upstream serves for a SHA (immutable).
CommitData(sha) ==
    [ stats |-> IF sha = 3 THEN <<>>
                ELSE << [additions |-> sha % 4, deletions |-> sha % 3, total |-> sha % 5] >>,
      files |-> IF sha % 2 = 0 THEN <<>> ELSE << sha % 3 >> ]

\* the x-ratelimit-* headers of an upstream response, when it carries them
FullHeaders == << [limit |-> 60, remaining |-> 59, reset |-> 100] >>

\* ------------------------------------------------------------ Array.sort
\* Array.prototype.sort as the runtime (V8, arrays shorter than 64) performs
\* it: the initial run is found and made ascending, the remaining elements
\* are inserted by binary insertion.  It works on a sequence p of indices and
\* a table C with C[<<x, y>>] the comparator's result for elements x and y.
RECURSIVE RunLen(_, _, _, _)
RunLen(p, C, desc, idx) ==
    IF idx > Len(p) THEN Len(p)
    ELSE LET o == C[<<p[idx], p[idx - 1]>>] IN
         IF (desc /\ o >= 0) \/ (~desc /\ o < 0) THEN idx - 1
         ELSE RunLen(p, C, desc, idx + 1)

Reverse(s) == [i \in DOMAIN s |-> s[Len(s) + 1 - i]]

RECURSIVE BSearch(_, _, _, _, _)
BSearch(p, C, pivot, left, right) ==
    IF left >= right THEN left
    ELSE LET mid == left + ((right - left) \div 2) IN
         IF C[<<pivot, p[mid]>>] < 0
         THEN BSearch(p, C, pivot, left, mid)
         ELSE BSearch(p, C, pivot, mid + 1, right)

RECURSIVE BinaryInsertionSort(_, _, _)
BinaryInsertionSort(p, C, start) ==
    IF start > Len(p) THEN p
    ELSE LET pivot == p[start]
             left  == BSearch(p, C, pivot, 1, start)
             q     == SubSeq(p, 1, left - 1) \o <<pivot>> \o
                      SubSeq(p, left, start - 1) \o SubSeq(p, start + 1, Len(p))
         IN  BinaryInsertionSort(q, C, start + 1)

SortPerm(n, C) ==
    LET p == [i \in 1..n |-> i] IN
    IF n < 2 THEN p
    ELSE LET desc == C[<<p[2], p[1]>>] < 0
             run  == RunLen(p, C, desc, 3)
             q    == IF desc THEN Reverse(SubSeq(p, 1, run)) \o SubSeq(p, run + 1, n)
                     ELSE p
         IN  BinaryInsertionSort(q, C, run + 1)

\* ------------------------------------------------------------ feed builder
ICONS(type) ==
    CASE type = "PushEvent"          -> "up"
      [] type = "PullRequestEvent"   -> "merge"
      [] type = "IssuesEvent"        -> "bang"
      [] type = "IssueCommentEvent"  -> "speech"
      [] type = "CreateEvent"        -> "seedling"
      [] type = "DeleteEvent"        -> "bin"
      [] type = "ReleaseEvent"       -> "tag"
      [] type = "ForkEvent"          -> "fork"
      [] type = "WatchEvent"         -> "star"
      [] type = "CommitCommentEvent" -> "memo"
      [] type = "MemberEvent"        -> "people"
      [] type = "public"             -> "horn"
      [] type = "Commit"             -> "memo"
      [] OTHER                       -> "pin"

Item(type, icon, when, repo, actor, title, url, sha, extra) ==
    [ type |-> type, icon |-> icon, when |-> when, repo |-> repo, actor |-> actor,
      title |-> title, url |-> url, sha |-> sha, extra |-> extra,
      stats |-> <<>>, displayName |-> <<>> ]

\* the push branch throws when commits has no map method or a commit has no
\* message to split
PushThrows(p) ==
    \/ p.commits[1] = "bad"
    \/ /\ p.commits[1] = "list"
       /\ \E i \in DOMAIN p.commits[2] : p.commits[2][i].message = <<>>

\* faulty variant: the items built before the malformed commit are kept
PushItems_Partial(ev) ==
    LET p  == ev.payload
        cs == IF p.commits[1] = "list" THEN p.commits[2] ELSE <<>>
        n  == IF \E i \in DOMAIN cs : cs[i].message = <<>>
              THEN (CHOOSE i \in DOMAIN cs :
                       /\ cs[i].message = <<>>
                       /\ \A j \in 1..(i - 1) : cs[j].message # <<>>) - 1
              ELSE Len(cs)
        branch == IF p.ref = <<>> THEN ""
                  ELSE IF p.ref[1] = "refs/heads/main" THEN "main" ELSE p.ref[1]
    IN  [i \in 1..n |->
            Item("Commit", "memo", ev.created_at, ev.repo, ev.actor,
                 <<"Commit to ", branch, ": ", cs[i].message[1][1]>>,
                 <<"https://github.com/", ev.repo, "/commit/", cs[i].sha>>,
                 <<cs[i].sha>>,
                 <<"by ", IF cs[i].author # <<>> THEN cs[i].author[1]
                          ELSE IF ev.actor # <<>> THEN ev.actor[1] ELSE "">>)]

\* ev is a tagged event (it has .repo, the __repo field).
\* The items of a push event: one per commit.  String operations are by
\* table: replace("refs/heads/", "") on the branch, split("\n")[0] on the
\* message, kept as a sequence of lines.
PushItems(ev) ==
    LET p  == ev.payload
        cs == p.commits[2]
        branch == IF p.ref = <<>> THEN ""
                  ELSE IF p.ref[1] = "refs/heads/main" THEN "main" ELSE p.ref[1]
    IN  IF PushThrows(p) THEN <<>>
        ELSE [i \in DOMAIN cs |->
                Item("Commit", "memo", ev.created_at, ev.repo, ev.actor,
                     <<"Commit to ", branch, ": ", cs[i].message[1][1]>>,
                     <<"https://github.com/", ev.repo, "/commit/", cs[i].sha>>,
                     <<cs[i].sha>>,
                     <<"by ", IF cs[i].author # <<>> THEN cs[i].author[1]
                              ELSE IF ev.actor # <<>> THEN ev.actor[1] ELSE "">>)]

\* the single item of any other event
OtherItem(ev) ==
    LET type == IF ev.type = <<>> THEN "default" ELSE ev.type[1]
        p    == ev.payload
        title ==
            CASE type = "PullRequestEvent"  -> <<"PR ", p.action, " #", p.number, ": ", p.title>>
              [] type = "IssuesEvent"       -> <<"Issue ", p.action, " #", p.number, ": ", p.title>>
              [] type = "IssueCommentEvent" -> <<"Issue comment #", p.number, ": ", p.title>>
              [] type = "ReleaseEvent"      -> <<"Release ", p.action, ": ", "">>
              [] type = "CreateEvent"       -> <<"Create ", p.ref_type, ": ", p.ref>>
              [] type = "DeleteEvent"       -> <<"Delete ", p.ref_type, ": ", p.ref>>
              [] type = "ForkEvent"         -> <<"Forked">>
              [] type = "WatchEvent"        -> <<"Starred">>
              [] OTHER                      -> <<type>>
        extra == IF type = "PullRequestEvent" /\ p.action = "closed" /\ p.merged
                 THEN <<"merged">> ELSE <<"">>
    IN  Item(type, ICONS(type), ev.created_at, ev.repo, ev.actor, title,
             <<"https://github.com/", ev.repo>>, <<>>, extra)

\* faulty variant: a push event is treated like any other event
eventToFeedItems_OnePerEvent(ev) == << OtherItem(ev) >>

eventToFeedItems(ev) ==
    IF (IF ev.type = <<>> THEN "default" ELSE ev.type[1]) = "PushEvent"
       /\ ev.payload.commits[1] # "absent"
    THEN PushItems(ev)
    ELSE << OtherItem(ev) >>

\* faulty variant: oldest first
byDescTime_Ascending(a, b) == a.when - b.when

byDescTime(a, b) == b.when - a.when

\* the commit-stat cache key `${repo}@${sha}`
StatKey(repo, sha) == <<repo, sha>>

\* faulty variant: the cached statistics are never attached
withStats_Never(item, cStats) == item

withStats(item, cStats) ==
    IF item.type = "Commit" /\ item.sha # <<>>
    THEN LET key == StatKey(item.repo, item.sha[1]) IN
         IF key \in DOMAIN cStats THEN [item EXCEPT !.stats = <<cStats[key]>>] ELSE item
    ELSE item

\* nameMap.get(it.repo) || it.repo
DisplayNameOf(repo) ==
    IF \E i \in DOMAIN CfgRepos : CfgRepos[i].id = repo
    THEN LET name == CfgRepos[CHOOSE i \in DOMAIN CfgRepos :
                         /\ CfgRepos[i].id = repo
                         /\ \A j \in DOMAIN CfgRepos : CfgRepos[j].id = repo => j <= i].name
         IN  IF name = "" THEN repo ELSE name
    ELSE repo

\* the items before sorting and truncation
Candidates(rEvents, cStats) ==
    LET allEvents == Flat(OValues(rEvents))
        items     == Flat([i \in DOMAIN allEvents |-> eventToFeedItems(allEvents[i])])
    IN  [i \in DOMAIN items |->
            [withStats(items[i], cStats) EXCEPT !.displayName = <<DisplayNameOf(items[i].repo)>>]]

\* faulty variant: the items are truncated without being sorted
rebuildGlobalFeed_Unsorted(limit, rEvents, cStats) ==
    Slice0(Candidates(rEvents, cStats), limit)

\* the value rebuildGlobalFeed assigns to store.feedItems
rebuildGlobalFeed(limit, rEvents, cStats) ==
    LET c    == Candidates(rEvents, cStats)
        C    == [xy \in (DOMAIN c) \X (DOMAIN c) |-> byDescTime(c[xy[1]], c[xy[2]])]
        perm == SortPerm(Len(c), C)
    IN  Slice0([i \in DOMAIN c |-> c[perm[i]]], limit)

\* ------------------------------------------------------------------- state
VARIABLES
    feedLimit,    \* cfg.feedLimit
    repoInfos,    \* store.repoInfos    : repo id -> RepoInfo
    repoEvents,   \* store.repoEvents   : entries (repo id, batch), insertion order
    commitStats,  \* store.commitStats  : <<repo id, sha>> -> CommitStats
    feedItems,    \* store.feedItems
    etags,        \* GitHubClient.etags : info / events / commits maps
    rate,         \* GitHubClient.rate
    queue,        \* UpdateScheduler.queue
    timer,        \* UpdateScheduler.timer : <<>> or <<id of the tick interval>>
    timers,       \* the tick intervals the runtime has active
    phase,        \* position of main: "init", "bulk" (awaiting initialLoad), "running"
    updates,      \* the updateRepo invocations in flight, oldest first
    upVer,        \* upstream: current version of each repository in History
    changes,      \* upstream changes so far
    fails,        \* failed upstream calls so far
    overlaps,     \* ticks so far that started while another was in flight
    lastBuilt,    \* history: the queue as buildQueue last produced it
    popped,       \* history: the repositories ticks took from it since then
    did,          \* history: what the last step did (see Quiet)
    audit         \* CodeAuditScheduler and its cycles (see AuditOff)

vars == << feedLimit, repoInfos, repoEvents, commitStats, feedItems, etags, rate,
           queue, timer, timers, phase, updates, upVer, changes, fails, overlaps,
           lastBuilt, popped, did, audit >>

\* What a step can do that a claim speaks about:
\*   rebuild  the feed was rebuilt          build   the queue was built
\*   settled  <<the settled request, how, headers>> of the upstream call that settled
\*   resumed  <<the update>> that went on past its metadata and events requests
\*   bulk     <<the updates>> of initialLoad, when it returned in this step
\*   returned <<the update>> of a tick whose updateRepo returned in this step
\*   served   <<the items>> an /api/feed request was answered with
\*   log      the calls of rebuildGlobalFeed ("rebuild"), buildQueue ("build")
\*            and setInterval for the ticks ("timer"), in the order they ran
\*   tick     a tick interval fired and tick() ran
\*   requeue  the requeue interval fired and start() ran
\*   stored   <<the update>> whose commit-stat fan-out settled and whose
\*            results were handled
Quiet == [ rebuild |-> FALSE, build |-> FALSE, settled |-> <<>>, resumed |-> <<>>,
           bulk |-> <<>>, returned |-> <<>>, served |-> <<>>, log |-> <<>>,
           tick |-> FALSE, requeue |-> FALSE, stored |-> <<>> ]

\* The code-audit scheduler:
\*   enabled  cfg.codeAuditEnabled      started  start() has run
\*   running  CodeAuditScheduler.running
\*   cycles   the cycle() invocations in progress, each at the await of mkdir,
\*            of ensureRepo or of runAuditCLI for repository number idx
\*   reports  the keys of store.qualityReports, in insertion order
\*   fails    failed audit steps so far    exited  the process has terminated
\*   last     history: what the last audit step did
\* With the default configuration the audit is disabled and start() returns
\* at once.
AuditOff ==
    [ enabled |-> FALSE, started |-> FALSE, running |-> FALSE, cycles |-> <<>>,
      reports |-> <<>>, fails |-> 0, exited |-> FALSE, last |-> "" ]

\* the program's mutable state as one record, for the operators below
Cur ==
    [ repoInfos |-> repoInfos, repoEvents |-> repoEvents, commitStats |-> commitStats,
      feedItems |-> feedItems, etags |-> etags, rate |-> rate, queue |-> queue,
      timer |-> timer, timers |-> timers, phase |-> phase, updates |-> updates,
      lastBuilt |-> lastBuilt, popped |-> popped, did |-> Quiet ]

Becomes(S) ==
    /\ repoInfos' = S.repoInfos     /\ repoEvents' = S.repoEvents
    /\ commitStats' = S.commitStats /\ feedItems' = S.feedItems
    /\ etags' = S.etags             /\ rate' = S.rate
    /\ queue' = S.queue             /\ timer' = S.timer
    /\ timers' = S.timers           /\ phase' = S.phase
    /\ updates' = S.updates         /\ lastBuilt' = S.lastBuilt
    /\ popped' = S.popped           /\ did' = S.did

\* ------------------------------------------------------------------ client
\* the validation token upstream currently has for a resource
UpToken(cls, key, ver) ==
    CASE cls = "info"    -> History(key)[ver[key]].at
      [] cls = "events"  -> History(key)[ver[key]].page
      [] cls = "commits" -> key[2]

\* getRepoEvents: each event is tagged with its repository id
Tagged(ev, repoId) ==
    [ type |-> ev.type, created_at |-> ev.created_at, actor |-> ev.actor,
      payload |-> ev.payload, repo |-> repoId ]

\* what getRepoInfo / getRepoEvents / getCommitStats return for a 200 body
\* (the metadata fields copied verbatim are left out of RepoInfo)
Parsed(cls, key, ver) ==
    CASE cls = "info"    -> [ repo |-> key, pushed_at |-> History(key)[ver[key]].at,
                              displayName |-> <<>> ]
      [] cls = "events"  -> LET page == Pages(key)[History(key)[ver[key]].page]
                            IN  [i \in DOMAIN page |-> Tagged(page[i], key)]
      [] cls = "commits" -> LET d == CommitData(key[2]) IN
                            [ sha |-> key[2],
                              additions |-> IF d.stats = <<>> THEN 0 ELSE d.stats[1].additions,
                              deletions |-> IF d.stats = <<>> THEN 0 ELSE d.stats[1].deletions,
                              filesChanged |-> IF d.files # <<>> THEN d.files[1]
                                               ELSE IF d.stats = <<>> THEN 0
                                               ELSE d.stats[1].total ]

\* faulty variant: no precondition is sent
NewReq_NoTag(cls, key, tags) ==
    [ cls |-> cls, key |-> key, tag |-> <<>>, st |-> "sent", data |-> <<>> ]

\* fetchJsonWithEtag up to the await of fetch: the stored token is attached
NewReq(cls, key, tags) ==
    [ cls |-> cls, key |-> key,
      tag |-> IF key \in DOMAIN tags[cls] THEN <<tags[cls][key]>> ELSE <<>>,
      st |-> "sent", data |-> <<>> ]

updateRateLimit(hdr) ==
    IF hdr = <<>> THEN [limit |-> 0, remaining |-> 0, reset |-> 0] ELSE hdr[1]

\* faulty variant: an error status is raised before the rate budget is updated
Settle_ErrorSkipsRate(q, how, hdr, tags, rt, ver) ==
    LET tok == UpToken(q.cls, q.key, ver) IN
    CASE how = "neterr"  -> [ req |-> [q EXCEPT !.st = "fail"], etags |-> tags, rate |-> rt ]
      [] how = "httperr" -> [ req |-> [q EXCEPT !.st = "fail"], etags |-> tags, rate |-> rt ]
      [] OTHER ->
           IF q.tag = <<tok>>
           THEN [ req |-> [q EXCEPT !.st = "notmod"], etags |-> tags,
                  rate |-> updateRateLimit(hdr) ]
           ELSE [ req |-> [q EXCEPT !.st = "ok", !.data = <<Parsed(q.cls, q.key, ver)>>],
                  etags |-> [tags EXCEPT ![q.cls] = MapSet(tags[q.cls], q.key, tok)],
                  rate |-> updateRateLimit(hdr) ]

\* faulty variant: a failed call invalidates the stored token of its key
Settle_DropTokenOnError(q, how, hdr, tags, rt, ver) ==
    LET tok == UpToken(q.cls, q.key, ver)
        dropped == [tags EXCEPT ![q.cls] =
                       [x \in (DOMAIN tags[q.cls]) \ {q.key} |-> tags[q.cls][x]]]
    IN
    CASE how = "neterr"  -> [ req |-> [q EXCEPT !.st = "fail"], etags |-> dropped, rate |-> rt ]
      [] how = "httperr" -> [ req |-> [q EXCEPT !.st = "fail"], etags |-> dropped,
                              rate |-> updateRateLimit(hdr) ]
      [] OTHER ->
           IF q.tag = <<tok>>
           THEN [ req |-> [q EXCEPT !.st = "notmod"], etags |-> tags,
                  rate |-> updateRateLimit(hdr) ]
           ELSE [ req |-> [q EXCEPT !.st = "ok", !.data = <<Parsed(q.cls, q.key, ver)>>],
                  etags |-> [tags EXCEPT ![q.cls] = MapSet(tags[q.cls], q.key, tok)],
                  rate |-> updateRateLimit(hdr) ]

\* fetchJsonWithEtag from the response on, and the derived operation's mapping.
\* how is "resp" (upstream answers 200 or 304), "httperr" (error status or an
\* unreadable body) or "neterr" (fetch rejects, there is no response).
\* The result is the settled request, the token cache and the rate budget.
Settle(q, how, hdr, tags, rt, ver) ==
    LET tok == UpToken(q.cls, q.key, ver) IN
    CASE how = "neterr"  -> [ req |-> [q EXCEPT !.st = "fail"], etags |-> tags, rate |-> rt ]
      [] how = "httperr" -> [ req |-> [q EXCEPT !.st = "fail"], etags |-> tags,
                              rate |-> updateRateLimit(hdr) ]
      [] OTHER ->
           IF q.tag = <<tok>>
           THEN [ req |-> [q EXCEPT !.st = "notmod"], etags |-> tags,
                  rate |-> updateRateLimit(hdr) ]
           ELSE [ req |-> [q EXCEPT !.st = "ok", !.data = <<Parsed(q.cls, q.key, ver)>>],
                  etags |-> [tags EXCEPT ![q.cls] = MapSet(tags[q.cls], q.key, tok)],
                  rate |-> updateRateLimit(hdr) ]

\* --------------------------------------------------------------- scheduler
\* faulty variant: least recently pushed first
QueueOrder_Ascending(infos, x, y) ==
    LET a == CfgRepos[x].id
        b == CfgRepos[y].id
    IN  IF a \notin DOMAIN infos \/ b \notin DOMAIN infos THEN 0
        ELSE infos[a].pushed_at - infos[b].pushed_at

\* the comparator of buildQueue, for configured repositories number x and y
QueueOrder(infos, x, y) ==
    LET a == CfgRepos[x].id
        b == CfgRepos[y].id
    IN  IF a \notin DOMAIN infos \/ b \notin DOMAIN infos THEN 0
        ELSE infos[b].pushed_at - infos[a].pushed_at

\* the array buildQueue assigns to this.queue
SortedRepos(infos) ==
    LET n    == Len(CfgRepos)
        C    == [xy \in (1..n) \X (1..n) |-> QueueOrder(infos, xy[1], xy[2])]
        perm == SortPerm(n, C)
    IN  [i \in 1..n |-> CfgRepos[perm[i]]]

\* faulty variant: the new ordering is appended to what the queue still holds
buildQueue_Append(S) ==
    LET sorted == SortedRepos(S.repoInfos) IN
    [S EXCEPT !.queue = @ \o sorted, !.lastBuilt = sorted, !.popped = <<>>,
              !.did.build = TRUE, !.did.log = Append(@, "build")]

buildQueue(S) ==
    LET sorted == SortedRepos(S.repoInfos) IN
    [S EXCEPT !.queue = sorted, !.lastBuilt = sorted, !.popped = <<>>,
              !.did.build = TRUE, !.did.log = Append(@, "build")]

FreshTimer(active) == CHOOSE n \in 1..(Cardinality(active) + 1) : n \notin active

\* faulty variant: start() does not clear the tick interval it set before
start_NoClear(S) ==
    LET S1 == buildQueue(S)
        id == FreshTimer(S.timers)
    IN  [S1 EXCEPT !.timers = S.timers \cup {id}, !.timer = <<id>>,
                   !.did.log = Append(@, "timer")]

\* faulty variant: a queue that has not drained is kept by start()
start_KeepQueue(S) ==
    LET cleared == IF S.timer # <<>> THEN S.timers \ {S.timer[1]} ELSE S.timers
        S1      == IF S.queue = <<>> THEN buildQueue(S) ELSE S
        id      == FreshTimer(cleared)
    IN  [S1 EXCEPT !.timers = cleared \cup {id}, !.timer = <<id>>,
                   !.did.log = Append(@, "timer")]

\* start(): clear the tick interval if there is one, build the queue, set a
\* new tick interval
start(S) ==
    LET cleared == IF S.timer # <<>> THEN S.timers \ {S.timer[1]} ELSE S.timers
        S1      == buildQueue(S)
        id      == FreshTimer(cleared)
    IN  [S1 EXCEPT !.timers = cleared \cup {id}, !.timer = <<id>>,
                   !.did.log = Append(@, "timer")]

rebuild(S) ==
    [S EXCEPT !.feedItems = rebuildGlobalFeed(feedLimit, S.repoEvents, S.commitStats),
              !.did.rebuild = TRUE, !.did.log = Append(@, "rebuild")]

\* updateRepo up to its first await: both requests are issued
NewUpdate(repo, origin, tags) ==
    [ repo |-> repo, origin |-> origin, pc |-> "fetch",
      info   |-> NewReq("info", repo.id, tags),
      events |-> NewReq("events", repo.id, tags),
      toFetch |-> <<>>, stats |-> <<>> ]

Settled(q) == q.st # "sent"

\* the SHAs of the push events of a batch, in batch order
PushShas(events) ==
    Flat([i \in DOMAIN events |->
            IF events[i].type = <<"PushEvent">> /\ events[i].payload.commits[1] = "list"
            THEN [j \in DOMAIN events[i].payload.commits[2] |->
                     events[i].payload.commits[2][j].sha]
            ELSE <<>>])

\* the scan of the batch throws on a commits value that is not iterable
ScanThrows(events) ==
    \E i \in DOMAIN events :
        events[i].type = <<"PushEvent">> /\ events[i].payload.commits[1] = "bad"

\* faulty variant: no cap on the fan-out
ToFetch_NoCap(repoId, events, cStats) ==
    LET Uncached(sha) == StatKey(repoId, sha) \notin DOMAIN cStats
    IN  SelectSeq(PushShas(events), Uncached)

\* the SHAs updateRepo fetches statistics for
ToFetch(repoId, events, cStats) ==
    LET Uncached(sha) == StatKey(repoId, sha) \notin DOMAIN cStats
    IN  Slice0(SelectSeq(PushShas(events), Uncached), StatFanout)

\* faulty variant: the cache is replaced by the results of the fan-out
StoreStats_Fresh(cStats, repoId, reqs) ==
    LET oks == {k \in DOMAIN reqs : reqs[k].st = "ok"} IN
    [key \in {reqs[k].key : k \in oks} |->
        reqs[CHOOSE k \in oks : reqs[k].key = key].data[1]]

\* faulty variant: the results after the first failed fetch are dropped
RECURSIVE StoreStats_UntilFailure(_, _, _)
StoreStats_UntilFailure(cStats, repoId, reqs) ==
    IF reqs = <<>> \/ Head(reqs).st = "fail" THEN cStats
    ELSE LET q == Head(reqs) IN
         StoreStats_UntilFailure(IF q.st = "ok"
                                 THEN MapSet(cStats, StatKey(repoId, q.data[1].sha), q.data[1])
                                 ELSE cStats,
                                 repoId, Tail(reqs))

\* stats.forEach: the fulfilled, non-null results are stored in order
RECURSIVE StoreStats(_, _, _)
StoreStats(cStats, repoId, reqs) ==
    IF reqs = <<>> THEN cStats
    ELSE LET q == Head(reqs) IN
         StoreStats(IF q.st = "ok"
                    THEN MapSet(cStats, StatKey(repoId, q.data[1].sha), q.data[1])
                    ELSE cStats,
                    repoId, Tail(reqs))

\* faulty variant: the queue is built and the tick timer set before the feed
\* is rebuilt
BulkDone_StartFirst(S) ==
    rebuild(rebuild(start([S EXCEPT !.updates = <<>>, !.phase = "running",
                                    !.did.bulk = <<S.updates>>])))

\* initialLoad after its await, and main after its await of initialLoad:
\* the feed is rebuilt, start() builds the queue and sets the tick interval,
\* main sets the requeue interval and rebuilds the feed again
BulkDone(S) ==
    rebuild(start(rebuild([S EXCEPT !.updates = <<>>, !.phase = "running",
                                    !.did.bulk = <<S.updates>>])))

\* faulty variant: initialLoad awaits Promise.all of updates that rethrow, so the first
\* failed fetch ends the bulk load
Returned_FailFast(S, i) ==
    IF S.updates[i].origin = "tick"
    THEN rebuild([S EXCEPT !.updates = RemoveAt(@, i), !.did.returned = <<S.updates[i]>>])
    ELSE LET S1 == [S EXCEPT !.updates[i].pc = "done"] IN
         IF \/ \A j \in DOMAIN S1.updates : S1.updates[j].pc = "done"
            \/ S1.updates[i].info.st = "fail" \/ S1.updates[i].events.st = "fail"
         THEN BulkDone(S1)
         ELSE S1

\* faulty variant: a tick does not rebuild the feed after its update
Returned_NoRebuild(S, i) ==
    IF S.updates[i].origin = "tick"
    THEN [S EXCEPT !.updates = RemoveAt(@, i), !.did.returned = <<S.updates[i]>>]
    ELSE LET S1 == [S EXCEPT !.updates[i].pc = "done"] IN
         IF \A j \in DOMAIN S1.updates : S1.updates[j].pc = "done"
         THEN BulkDone(S1)
         ELSE S1

\* faulty variant: a failed fetch escapes updateRepo and tick, so the tick does
\* not rebuild the feed and the schedule stops
Returned_TickAborts(S, i) ==
    IF S.updates[i].origin = "tick"
    THEN LET u  == S.updates[i]
             S1 == [S EXCEPT !.updates = RemoveAt(@, i), !.did.returned = <<u>>]
         IN  IF \/ u.info.st = "fail" \/ u.events.st = "fail"
                \/ \E k \in DOMAIN u.stats : u.stats[k].st = "fail"
             THEN [S1 EXCEPT !.timers = {}, !.timer = <<>>]
             ELSE rebuild(S1)
    ELSE LET S1 == [S EXCEPT !.updates[i].pc = "done"] IN
         IF \A j \in DOMAIN S1.updates : S1.updates[j].pc = "done"
         THEN BulkDone(S1)
         ELSE S1

\* what runs when updateRepo number i returns: a tick goes on to rebuild the
\* feed; initialLoad goes on once every update has returned
Returned(S, i) ==
    IF S.updates[i].origin = "tick"
    THEN rebuild([S EXCEPT !.updates = RemoveAt(@, i), !.did.returned = <<S.updates[i]>>])
    ELSE LET S1 == [S EXCEPT !.updates[i].pc = "done"] IN
         IF \A j \in DOMAIN S1.updates : S1.updates[j].pc = "done"
         THEN BulkDone(S1)
         ELSE S1

\* updateRepo after the statistics have settled (lines 92-99)
AfterStats(S, i) ==
    LET u == S.updates[i] IN
    Returned([S EXCEPT !.commitStats = StoreStats(@, u.repo.id, u.stats),
                       !.did.stored = <<u>>], i)

\* faulty variant: the fetched batch always replaces the cached one
WritesBatch_Always(events, rEvents, id) == TRUE

\* line 74: the fetched batch replaces the cached one
WritesBatch(events, rEvents, id) == Len(events) > 0 \/ ~OHas(rEvents, id)

\* faulty variant: a failed metadata fetch drops the cached RepoInfo
InfoWrite_DropOnFail(infos, u) ==
    CASE u.info.st = "ok" ->
           MapSet(infos, u.repo.id, [u.info.data[1] EXCEPT !.displayName = <<u.repo.name>>])
      [] u.info.st = "fail" -> [x \in (DOMAIN infos) \ {u.repo.id} |-> infos[x]]
      [] OTHER -> infos

\* faulty variant: an unchanged metadata response stores an empty RepoInfo
InfoWrite_BlankOnUnchanged(infos, u) ==
    CASE u.info.st = "ok" ->
           MapSet(infos, u.repo.id, [u.info.data[1] EXCEPT !.displayName = <<u.repo.name>>])
      [] u.info.st = "notmod" ->
           MapSet(infos, u.repo.id, [repo |-> u.repo.id, pushed_at |-> 0,
                                     displayName |-> <<u.repo.name>>])
      [] OTHER -> infos

\* lines 65-70: store.repoInfos after the metadata result has been handled
InfoWrite(infos, u) ==
    IF u.info.st = "ok"
    THEN MapSet(infos, u.repo.id, [u.info.data[1] EXCEPT !.displayName = <<u.repo.name>>])
    ELSE infos

\* faulty variant: the events result is applied only if the metadata fetch
\* did not fail either
EventsFulfilled_BothNeeded(u) == u.events.st # "fail" /\ u.info.st # "fail"

\* faulty variant: a rejected events fetch is handled like an empty result
EventsFulfilled_Always(u) == TRUE

\* line 72: eventsRes.status === "fulfilled"
EventsFulfilled(u) == u.events.st # "fail"

\* updateRepo after metadata and events have settled (lines 65-91)
AfterFetch(S, i) ==
    LET u  == S.updates[i]
        id == u.repo.id
        S0 == [S EXCEPT !.did.resumed = <<u>>]
        S1 == [S0 EXCEPT !.repoInfos = InfoWrite(@, u)]
    IN
    IF ~EventsFulfilled(u) THEN Returned(S1, i)
    ELSE LET events == IF u.events.st = "ok" THEN u.events.data[1] ELSE <<>>
             S2 == IF WritesBatch(events, S1.repoEvents, id)
                   THEN [S1 EXCEPT !.repoEvents = OSet(@, id, events)]
                   ELSE S1
             toFetch == ToFetch(id, events, S2.commitStats)
         IN
         IF ScanThrows(events) THEN Returned(S2, i)
         ELSE LET S3 == [S2 EXCEPT
                            !.updates[i].pc = "stats",
                            !.updates[i].toFetch = toFetch,
                            !.updates[i].stats =
                                [k \in DOMAIN toFetch |->
                                    NewReq("commits", StatKey(id, toFetch[k]), S2.etags)]]
                  S4 == [S3 EXCEPT !.did.resumed = <<S3.updates[i]>>]
              IN IF toFetch = <<>> THEN AfterStats(S4, i) ELSE S4

\* faulty variant: the update goes on as soon as its events request has
\* settled, without waiting for the metadata request
Resume_EventsOnly(S, i) ==
    LET u == S.updates[i] IN
    IF u.pc = "fetch" /\ Settled(u.events) THEN AfterFetch(S, i)
    ELSE IF u.pc = "stats" /\ \A k \in DOMAIN u.stats : Settled(u.stats[k]) THEN AfterStats(S, i)
    ELSE S

\* faulty variant: the commit-stat fetches are raced, not all awaited
Resume_FirstStat(S, i) ==
    LET u == S.updates[i] IN
    IF u.pc = "fetch" /\ Settled(u.info) /\ Settled(u.events) THEN AfterFetch(S, i)
    ELSE IF u.pc = "stats" /\ \E k \in DOMAIN u.stats : Settled(u.stats[k]) THEN AfterStats(S, i)
    ELSE S

\* the continuation of updateRepo number i, if what it awaits has settled
Resume(S, i) ==
    LET u == S.updates[i] IN
    IF u.pc = "fetch" /\ Settled(u.info) /\ Settled(u.events) THEN AfterFetch(S, i)
    ELSE IF u.pc = "stats" /\ \A k \in DOMAIN u.stats : Settled(u.stats[k]) THEN AfterStats(S, i)
    ELSE S

\* ----------------------------------------------------------------- actions
Init ==
    /\ feedLimit \in 0..MaxLimit
    /\ repoInfos = <<>>  /\ repoEvents = <<>>  /\ commitStats = <<>>
    /\ feedItems = <<>>
    /\ etags = [info |-> <<>>, events |-> <<>>, commits |-> <<>>]
    /\ rate = [limit |-> 5000, remaining |-> 5000, reset |-> 0]
    /\ queue = <<>>  /\ timer = <<>>  /\ timers = {}
    /\ phase = "init"
    /\ updates = <<>>
    /\ upVer = [r \in RepoIds |-> 1]
    /\ changes = 0  /\ fails = 0  /\ overlaps = 0
    /\ lastBuilt = <<>>  /\ popped = <<>>  /\ did = Quiet
    /\ audit = AuditOff

Outcomes == {"resp", "httperr", "neterr"}

\* the rate-limit metadata a response of each kind can carry: upstream's 200
\* and 304 always carry it, an error response may lack it
HeadersOf(how) ==
    CASE how = "resp"    -> {FullHeaders}
      [] how = "httperr" -> {<<>>, FullHeaders}
      [] OTHER           -> {<<>>}

CountsFail(how) == IF how = "resp" THEN 0 ELSE 1

\* the failure budget
MayFail(how) == how = "resp" \/ (fails < MaxFails /\ overlaps = 0)

\* main calls initialLoad, which calls updateRepo for every configured
\* repository and awaits them all
InitialLoad ==
    /\ phase = "init"
    /\ LET S == [Cur EXCEPT !.phase = "bulk",
                            !.updates = [i \in DOMAIN CfgRepos |->
                                            NewUpdate(CfgRepos[i], "bulk", etags)]]
       IN  Becomes(IF CfgRepos = <<>> THEN BulkDone(S) ELSE S)
    /\ UNCHANGED <<audit, feedLimit, upVer, changes, fails, overlaps>>

\* the metadata request of update i settles
ReceiveInfo(i, how, hdr) ==
    /\ i \in DOMAIN updates
    /\ updates[i].pc = "fetch" /\ updates[i].info.st = "sent"
    /\ MayFail(how)
    /\ LET r == Settle(updates[i].info, how, hdr, etags, rate, upVer)
           S == [Cur EXCEPT !.updates[i].info = r.req, !.etags = r.etags, !.rate = r.rate,
                            !.did.settled = <<r.req, how, hdr>>]
       IN  Becomes(Resume(S, i))
    /\ fails' = fails + CountsFail(how)
    /\ UNCHANGED <<audit, feedLimit, upVer, changes, overlaps>>

\* the events request of update i settles
ReceiveEvents(i, how, hdr) ==
    /\ i \in DOMAIN updates
    /\ updates[i].pc = "fetch" /\ updates[i].events.st = "sent"
    /\ MayFail(how)
    /\ LET r == Settle(updates[i].events, how, hdr, etags, rate, upVer)
           S == [Cur EXCEPT !.updates[i].events = r.req, !.etags = r.etags, !.rate = r.rate,
                            !.did.settled = <<r.req, how, hdr>>]
       IN  Becomes(Resume(S, i))
    /\ fails' = fails + CountsFail(how)
    /\ UNCHANGED <<audit, feedLimit, upVer, changes, overlaps>>

\* commit-stat request k of update i settles
ReceiveStat(i, k, how, hdr) ==
    /\ i \in DOMAIN updates
    /\ updates[i].pc = "stats"
    /\ k \in DOMAIN updates[i].stats /\ updates[i].stats[k].st = "sent"
    /\ \A j \in 1..(k - 1) : Settled(updates[i].stats[j])
    /\ MayFail(how)
    /\ LET r == Settle(updates[i].stats[k], how, hdr, etags, rate, upVer)
           S == [Cur EXCEPT !.updates[i].stats[k] = r.req, !.etags = r.etags, !.rate = r.rate,
                            !.did.settled = <<r.req, how, hdr>>]
       IN  Becomes(Resume(S, i))
    /\ fails' = fails + CountsFail(how)
    /\ UNCHANGED <<audit, feedLimit, upVer, changes, overlaps>>

\* the tick invocations awaiting their updateRepo
TicksInFlight(upds) == Cardinality({i \in DOMAIN upds : upds[i].origin = "tick"})

Overlapping(upds) == IF TicksInFlight(upds) > 0 THEN 1 ELSE 0

\* faulty variant: the tick that finds the queue empty only rebuilds it
Tick_NoWrap(t) ==
    /\ phase = "running"
    /\ t \in timers
    /\ Overlapping(updates) = 1 => (overlaps < MaxOverlaps /\ fails = 0)
    /\ LET S1 == [Cur EXCEPT !.did.tick = TRUE]
       IN  Becomes(IF queue = <<>> THEN buildQueue(S1)
                   ELSE [S1 EXCEPT !.queue = Tail(@),
                                   !.popped = Append(@, Head(S1.queue)),
                                   !.updates = Append(@, NewUpdate(Head(S1.queue), "tick", etags))])
    /\ overlaps' = overlaps + Overlapping(updates)
    /\ UNCHANGED <<audit, feedLimit, upVer, changes, fails>>

\* the tick interval t fires: tick() up to the await of updateRepo
Tick(t) ==
    /\ phase = "running"
    /\ t \in timers
    /\ Overlapping(updates) = 1 => (overlaps < MaxOverlaps /\ fails = 0)
    /\ LET S1 == [Cur EXCEPT !.did.tick = TRUE]
           S2 == IF queue = <<>> THEN buildQueue(S1) ELSE S1
       IN  Becomes(IF S2.queue = <<>> THEN S2
                   ELSE [S2 EXCEPT !.queue = Tail(@),
                                   !.popped = Append(@, Head(S2.queue)),
                                   !.updates = Append(@, NewUpdate(Head(S2.queue), "tick", etags))])
    /\ overlaps' = overlaps + Overlapping(updates)
    /\ UNCHANGED <<audit, feedLimit, upVer, changes, fails>>

\* the requeue interval of main fires: scheduler.start()
Requeue ==
    /\ phase = "running"
    /\ Becomes(start([Cur EXCEPT !.did.requeue = TRUE]))
    /\ UNCHANGED <<audit, feedLimit, upVer, changes, fails, overlaps>>

\* faulty variant: the response is built without the statistics
FeedResponse_NoStats(items, cStats) ==
    [i \in DOMAIN items |-> [items[i] EXCEPT !.stats = <<>>]]

\* routes.ts 24-30: the items of the /api/feed response
FeedResponse(items, cStats) ==
    [i \in DOMAIN items |->
        IF items[i].type = "Commit" /\ items[i].sha # <<>>
        THEN LET key == StatKey(items[i].repo, items[i].sha[1]) IN
             IF key \in DOMAIN cStats THEN [items[i] EXCEPT !.stats = <<cStats[key]>>]
             ELSE items[i]
        ELSE items[i]]

\* a consumer requests /api/feed; the server listens once main has started it
GetFeed ==
    /\ phase = "running"
    /\ did' = [Quiet EXCEPT !.served = <<FeedResponse(feedItems, commitStats)>>]
    /\ UNCHANGED <<audit, feedLimit, repoInfos, repoEvents, commitStats, feedItems, etags, rate,
                   queue, timer, timers, phase, updates, upVer, changes, fails, overlaps,
                   lastBuilt, popped>>

\* upstream: a repository moves to a later version
UpstreamChange(r, v) ==
    /\ changes < MaxChanges
    /\ v \in DOMAIN History(r) /\ v > upVer[r]
    /\ upVer' = [upVer EXCEPT ![r] = v]
    /\ changes' = changes + 1
    /\ did' = Quiet
    /\ UNCHANGED <<audit, feedLimit, repoInfos, repoEvents, commitStats, feedItems, etags, rate,
                   queue, timer, timers, phase, updates, fails, overlaps, lastBuilt, popped>>

Next ==
    \/ InitialLoad
    \/ \E i \in DOMAIN updates, how \in Outcomes : \E hdr \in HeadersOf(how) : ReceiveInfo(i, how, hdr)
    \/ \E i \in DOMAIN updates, how \in Outcomes : \E hdr \in HeadersOf(how) : ReceiveEvents(i, how, hdr)
    \/ \E i \in DOMAIN updates, k \in 1..StatFanout, how \in Outcomes : \E hdr \in HeadersOf(how) :
           ReceiveStat(i, k, how, hdr)
    \/ \E t \in timers : Tick(t)
    \/ Requeue
    \/ \E r \in RepoIds, v \in 2..3 : UpstreamChange(r, v)
    \/ GetFeed

Spec == Init /\ [][Next]_vars

\* the runtime's scheduling: the requeue interval of main keeps firing, the
\* tick interval fires again and again, and every fetch settles, so that the
\* scheduler is idle again and again
Fairness ==
    /\ WF_vars(Requeue)
    /\ []<>(did.tick)
    /\ []<>(phase = "running" /\ updates = <<>>)

FairSpec == Spec /\ Fairness

\* ------------------------------------------------- buildQueue, on its own
\* buildQueue as a function of cfg.repos and the RepoInfo cache, for a
\* configuration of three repositories

\* the largest last-pushed timestamp of the cached RepoInfo drawn below
MaxPushed == 3

ThreeRepos == CfgRepos \o << [id |-> "o/c", name |-> "C"] >>

\* the comparator of buildQueue, for elements x and y of the array cfg
ComparatorOf(cfg, infos, x, y) ==
    LET a == cfg[x].id
        b == cfg[y].id
    IN  IF a \notin DOMAIN infos \/ b \notin DOMAIN infos THEN 0
        ELSE infos[b].pushed_at - infos[a].pushed_at

\* [...cfg].sort(comparator)
SortedOf(cfg, infos) ==
    LET n    == Len(cfg)
        C    == [xy \in (1..n) \X (1..n) |-> ComparatorOf(cfg, infos, xy[1], xy[2])]
        perm == SortPerm(n, C)
    IN  [i \in 1..n |-> cfg[perm[i]]]

\* the RepoInfo caches the scheduler can find: any of the repositories may
\* have no entry (its metadata fetch failed or has not been made)
PartialInfos ==
    LET ids == {ThreeRepos[i].id : i \in DOMAIN ThreeRepos} IN
    UNION {{[r \in S |-> [repo |-> r, pushed_at |-> f[r], displayName |-> <<>>]] :
               f \in [S -> 1..MaxPushed]} : S \in SUBSET ids}

QueueInit ==
    /\ feedLimit = MaxLimit
    /\ repoInfos \in PartialInfos
    /\ repoEvents = <<>>  /\ commitStats = <<>>  /\ feedItems = <<>>
    /\ etags = [info |-> <<>>, events |-> <<>>, commits |-> <<>>]
    /\ rate = [limit |-> 5000, remaining |-> 5000, reset |-> 0]
    /\ queue = <<>>  /\ timer = <<1>>  /\ timers = {1}
    /\ phase = "running"
    /\ updates = <<>>
    /\ upVer = [r \in RepoIds |-> 1]
    /\ changes = 0  /\ fails = 0  /\ overlaps = 0
    /\ lastBuilt = <<>>  /\ popped = <<>>  /\ did = Quiet
    /\ audit = AuditOff

\* buildQueue runs with cfg.repos = ThreeRepos
QueueBuild ==
    /\ ~did.build
    /\ LET sorted == SortedOf(ThreeRepos, repoInfos) IN
       /\ queue' = sorted /\ lastBuilt' = sorted /\ popped' = <<>>
       /\ did' = [Quiet EXCEPT !.build = TRUE, !.log = <<"build">>]
    /\ UNCHANGED <<audit, feedLimit, repoInfos, repoEvents, commitStats, feedItems, etags, rate,
                   timer, timers, phase, updates, upVer, changes, fails, overlaps>>

QueueNext == QueueBuild

QueueSpec == QueueInit /\ [][QueueNext]_vars

\* ------------------------------------------- overlapping updates, deeper
\* The program with every upstream call answered and no feed request, and
\* with upstream changing more often: the runs in which two updates of one
\* repository overlap while upstream changes between their responses.

\* upstream changes in these runs
MaxRaceChanges == 2

RaceInit == Init /\ feedLimit = MaxLimit

\* upstream: a repository moves to a later version
RaceChange(r, v) ==
    /\ changes < MaxRaceChanges
    /\ v \in DOMAIN History(r) /\ v > upVer[r]
    /\ upVer' = [upVer EXCEPT ![r] = v]
    /\ changes' = changes + 1
    /\ did' = Quiet
    /\ UNCHANGED <<audit, feedLimit, repoInfos, repoEvents, commitStats, feedItems, etags, rate,
                   queue, timer, timers, phase, updates, fails, overlaps, lastBuilt, popped>>

RaceNext ==
    \/ InitialLoad
    \/ \E i \in DOMAIN updates : ReceiveInfo(i, "resp", FullHeaders)
    \/ \E i \in DOMAIN updates : ReceiveEvents(i, "resp", FullHeaders)
    \/ \E i \in DOMAIN updates, k \in 1..StatFanout : ReceiveStat(i, k, "resp", FullHeaders)
    \/ \E t \in timers : Tick(t)
    \/ Requeue
    \/ \E r \in RepoIds, v \in 2..3 : RaceChange(r, v)

RaceSpec == RaceInit /\ [][RaceNext]_vars

\* -------------------------------------------------------------- code audit
\* The code-audit scheduler when it is enabled, from the point where main
\* starts it; the update scheduler is left aside.

\* failed audit steps in a run
MaxAuditFails == 4

\* cfg.codeAuditMaxReports
AuditMaxReports == 1

\* cycle() up to its first await
cycle(A) ==
    IF A.running THEN [A EXCEPT !.last = "skipped"]
    ELSE [A EXCEPT !.running = TRUE, !.cycles = Append(@, [pc |-> "mkdir", idx |-> 0]),
                   !.last = "started"]

\* the finally block of cycle number i, and its return
AuditFinish(A, i) ==
    [A EXCEPT !.running = FALSE, !.cycles = RemoveAt(@, i), !.last = "ended"]

\* the for loop of cycle number i goes on to the next repository, if any
AuditNextRepo(A, i) ==
    IF A.cycles[i].idx < Len(CfgRepos)
    THEN [A EXCEPT !.cycles[i] = [pc |-> "ensure", idx |-> @.idx + 1], !.last = "step"]
    ELSE AuditFinish(A, i)

\* qualityReports.set, then the cap: the oldest key is deleted
AuditSetReport(reports, id) ==
    LET r1 == IF id \in Range(reports) THEN reports ELSE Append(reports, id)
    IN  IF Len(r1) > AuditMaxReports THEN Tail(r1) ELSE r1

AuditInit ==
    /\ feedLimit = MaxLimit
    /\ repoInfos = <<>>  /\ repoEvents = <<>>  /\ commitStats = <<>>  /\ feedItems = <<>>
    /\ etags = [info |-> <<>>, events |-> <<>>, commits |-> <<>>]
    /\ rate = [limit |-> 5000, remaining |-> 5000, reset |-> 0]
    /\ queue = <<>>  /\ timer = <<1>>  /\ timers = {1}
    /\ phase = "running"
    /\ updates = <<>>
    /\ upVer = [r \in RepoIds |-> 1]
    /\ changes = 0  /\ fails = 0  /\ overlaps = 0
    /\ lastBuilt = <<>>  /\ popped = <<>>  /\ did = Quiet
    /\ \E e \in BOOLEAN : audit = [AuditOff EXCEPT !.enabled = e]

\* main: new CodeAuditScheduler(cfg, store).start()
AuditStart ==
    /\ ~audit.started /\ ~audit.exited
    /\ audit' = IF audit.enabled THEN [cycle(audit) EXCEPT !.started = TRUE]
                ELSE [audit EXCEPT !.started = TRUE, !.last = "off"]
    /\ UNCHANGED <<feedLimit, repoInfos, repoEvents, commitStats, feedItems, etags, rate,
                   queue, timer, timers, phase, updates, upVer, changes, fails, overlaps,
                   lastBuilt, popped, did>>

\* the audit interval fires
AuditTrigger ==
    /\ audit.started /\ audit.enabled /\ ~audit.exited
    /\ audit' = cycle(audit)
    /\ UNCHANGED <<feedLimit, repoInfos, repoEvents, commitStats, feedItems, etags, rate,
                   queue, timer, timers, phase, updates, upVer, changes, fails, overlaps,
                   lastBuilt, popped, did>>

\* Deno.mkdir of cycle i settles; a rejection leaves cycle() through finally
\* and, no one handling the rejected promise, terminates the process
AuditMkdir(i, ok) ==
    /\ ~audit.exited
    /\ i \in DOMAIN audit.cycles /\ audit.cycles[i].pc = "mkdir"
    /\ ok \/ audit.fails < MaxAuditFails
    /\ audit' = IF ok THEN AuditNextRepo(audit, i)
                ELSE [AuditFinish(audit, i) EXCEPT !.exited = TRUE, !.fails = @ + 1,
                                                   !.last = "aborted"]
    /\ UNCHANGED <<feedLimit, repoInfos, repoEvents, commitStats, feedItems, etags, rate,
                   queue, timer, timers, phase, updates, upVer, changes, fails, overlaps,
                   lastBuilt, popped, did>>

\* ensureRepo of cycle i settles; a failure is caught inside the loop
AuditEnsure(i, ok) ==
    /\ ~audit.exited
    /\ i \in DOMAIN audit.cycles /\ audit.cycles[i].pc = "ensure"
    /\ ok \/ audit.fails < MaxAuditFails
    /\ audit' = IF ok THEN [audit EXCEPT !.cycles[i].pc = "cli", !.last = "step"]
                ELSE AuditNextRepo([audit EXCEPT !.fails = @ + 1], i)
    /\ UNCHANGED <<feedLimit, repoInfos, repoEvents, commitStats, feedItems, etags, rate,
                   queue, timer, timers, phase, updates, upVer, changes, fails, overlaps,
                   lastBuilt, popped, did>>

\* runAuditCLI of cycle i settles: the report is stored, or the failure caught
AuditCli(i, ok) ==
    /\ ~audit.exited
    /\ i \in DOMAIN audit.cycles /\ audit.cycles[i].pc = "cli"
    /\ ok \/ audit.fails < MaxAuditFails
    /\ audit' = IF ok
                THEN AuditNextRepo([audit EXCEPT !.reports =
                        AuditSetReport(@, CfgRepos[audit.cycles[i].idx].id)], i)
                ELSE AuditNextRepo([audit EXCEPT !.fails = @ + 1], i)
    /\ UNCHANGED <<feedLimit, repoInfos, repoEvents, commitStats, feedItems, etags, rate,
                   queue, timer, timers, phase, updates, upVer, changes, fails, overlaps,
                   lastBuilt, popped, did>>

AuditNext ==
    \/ AuditStart
    \/ AuditTrigger
    \/ \E i \in DOMAIN audit.cycles, ok \in BOOLEAN : AuditMkdir(i, ok)
    \/ \E i \in DOMAIN audit.cycles, ok \in BOOLEAN : AuditEnsure(i, ok)
    \/ \E i \in DOMAIN audit.cycles, ok \in BOOLEAN : AuditCli(i, ok)

AuditSpec == AuditInit /\ [][AuditNext]_vars

\* ================================================================== claims
HasBatch(m, id) == OHas(m, id)

\* the value an update's events request handed to updateRepo
FulfilledEvents(u) == IF u.events.st = "ok" THEN u.events.data[1] ELSE <<>>

\* C1 -- Stale preference: the continuation of an update whose events fetch
\* came back Unchanged leaves a non-empty cached batch of that repository
\* exactly as it was.
C1_StalePreference ==
    [][ \A u \in Range(did'.resumed) :
          ( /\ u.events.st = "notmod"
            /\ HasBatch(repoEvents, u.repo.id)
            /\ OGet(repoEvents, u.repo.id) # <<>> )
          => /\ HasBatch(repoEvents', u.repo.id)
             /\ OGet(repoEvents', u.repo.id) = OGet(repoEvents, u.repo.id) ]_vars

C1_Witness ==
    /\ did.resumed # <<>>
    /\ did.resumed[1].events.st = "notmod"
    /\ HasBatch(repoEvents, did.resumed[1].repo.id)
    /\ OGet(repoEvents, did.resumed[1].repo.id) # <<>>

\* C2 -- Ticks do not overlap: at no time are two tick executions in flight.
C2_TicksDoNotOverlap == TicksInFlight(updates) <= 1

\* C3 -- Bulk-load isolation: when initialLoad returns, every update of the
\* bulk load has settled, and every metadata response and every events
\* response that succeeded has been written for its repository, whatever
\* failed in the other requests; main goes on to the running phase.
C3_BulkIsolation ==
    did.bulk # <<>> =>
        /\ phase = "running"
        /\ Len(did.bulk[1]) = Len(CfgRepos)
        /\ \A i \in DOMAIN did.bulk[1] :
             LET u == did.bulk[1][i] IN
             /\ u.pc = "done" /\ u.repo = CfgRepos[i]
             /\ Settled(u.info) /\ Settled(u.events)
             /\ u.info.st = "ok" =>
                   /\ u.repo.id \in DOMAIN repoInfos
                   /\ repoInfos[u.repo.id].pushed_at = u.info.data[1].pushed_at
                   /\ repoInfos[u.repo.id].displayName = <<u.repo.name>>
             /\ u.events.st = "ok" =>
                   /\ HasBatch(repoEvents, u.repo.id)
                   /\ OGet(repoEvents, u.repo.id) = u.events.data[1]

C3_Witness ==
    /\ did.bulk # <<>>
    /\ \E i, j \in DOMAIN did.bulk[1] :
         /\ did.bulk[1][i].info.st = "fail"
         /\ did.bulk[1][j].info.st = "ok" /\ did.bulk[1][j].events.st = "ok"
         /\ did.bulk[1][j].repo.id \in DOMAIN repoInfos
         /\ did.bulk[1][i].repo.id \notin DOMAIN repoInfos

\* the SHAs of the push events of a batch, event by event and commit by commit
RECURSIVE C4_Shas(_)
C4_Shas(events) ==
    IF events = <<>> THEN <<>>
    ELSE LET ev == Head(events) IN
         (IF ev.type = <<"PushEvent">> /\ ev.payload.commits[1] = "list"
          THEN [k \in DOMAIN ev.payload.commits[2] |-> ev.payload.commits[2][k].sha]
          ELSE <<>>) \o C4_Shas(Tail(events))

\* C4 -- Bounded fan-out: an update issues at most 5 commit-stat fetches, and
\* they are for the first 5 uncached SHAs of the fetched batch, in batch order.
C4_BoundedFanout ==
    /\ \A i \in DOMAIN updates : Len(updates[i].stats) <= 5
    /\ \A u \in Range(did.resumed) :
         LET unc == SelectSeq(C4_Shas(FulfilledEvents(u)),
                              LAMBDA sha : <<u.repo.id, sha>> \notin DOMAIN commitStats)
         IN  /\ Len(u.stats) <= 5
             /\ u.pc = "stats" =>
                  /\ Len(u.stats) = Min(5, Len(unc))
                  /\ \A k \in DOMAIN u.stats :
                       /\ u.stats[k].cls = "commits"
                       /\ u.stats[k].key = <<u.repo.id, unc[k]>>

C4_Witness ==
    /\ did.resumed # <<>>
    /\ did.resumed[1].pc = "stats"
    /\ Len(did.resumed[1].stats) = 5
    /\ Len(C4_Shas(FulfilledEvents(did.resumed[1]))) > 5
    /\ \A k \in DOMAIN C4_Shas(FulfilledEvents(did.resumed[1])) :
         <<did.resumed[1].repo.id, C4_Shas(FulfilledEvents(did.resumed[1]))[k]>>
             \notin DOMAIN commitStats

\* the number of occurrences of x in a sequence
C5_Occurs(items, x) == Cardinality({i \in DOMAIN items : items[i] = x})

\* the number of items of a sequence at least as recent as t
C5_AtLeast(items, t) == Cardinality({i \in DOMAIN items : items[i].when >= t})

\* C5 -- Feed bound: after a rebuild the feed holds min(limit, candidates)
\* items, each a candidate item, and they are the most recent ones: for every
\* instant t the feed holds min(limit, n) of the n candidates at least as
\* recent as t.
C5_FeedBound ==
    did.rebuild =>
        LET c == Candidates(repoEvents, commitStats) IN
        /\ Len(feedItems) <= feedLimit
        /\ Len(feedItems) = Min(feedLimit, Len(c))
        /\ \A i \in DOMAIN feedItems :
             C5_Occurs(feedItems, feedItems[i]) <= C5_Occurs(c, feedItems[i])
        /\ \A j \in DOMAIN c :
             C5_AtLeast(feedItems, c[j].when) = Min(feedLimit, C5_AtLeast(c, c[j].when))

C5_Witness ==
    /\ did.rebuild
    /\ feedLimit > 0
    /\ Len(Candidates(repoEvents, commitStats)) > feedLimit
    /\ \E j \in DOMAIN Candidates(repoEvents, commitStats) :
         /\ Candidates(repoEvents, commitStats)[j].when > Candidates(repoEvents, commitStats)[1].when
         /\ \E i \in DOMAIN feedItems : feedItems[i] = Candidates(repoEvents, commitStats)[j]
    /\ \E j \in DOMAIN Candidates(repoEvents, commitStats) :
         \A i \in DOMAIN feedItems : feedItems[i].when > Candidates(repoEvents, commitStats)[j].when

\* every configured repository has cached metadata, pairwise distinct in
\* last-pushed timestamp
C6_AllDistinct(infos) ==
    /\ \A i \in DOMAIN CfgRepos : CfgRepos[i].id \in DOMAIN infos
    /\ \A i, j \in DOMAIN CfgRepos :
         i # j => infos[CfgRepos[i].id].pushed_at # infos[CfgRepos[j].id].pushed_at

\* a step in which a tick takes a repository and starts its update
C6_TickStep == phase = "running" /\ Len(updates') = Len(updates) + 1

\* C6 -- Priority ordering: a queue built while every repository has cached
\* metadata with distinct last-pushed timestamps holds every configured
\* repository once, in strictly descending last-pushed order; every tick
\* updates the head of the queue, so the repositories taken since the last
\* build, followed by the queue, are that order.
C6_PriorityOrdering ==
    [][ /\ (did'.build /\ C6_AllDistinct(repoInfos')) =>
              /\ Len(lastBuilt') = Len(CfgRepos)
              /\ Range(lastBuilt') = Range(CfgRepos)
              /\ \A i, j \in DOMAIN lastBuilt' :
                   i < j => repoInfos'[lastBuilt'[i].id].pushed_at
                              > repoInfos'[lastBuilt'[j].id].pushed_at
        /\ popped' \o queue' = lastBuilt'
        /\ C6_TickStep =>
              /\ popped' # <<>>
              /\ updates'[Len(updates')].repo = popped'[Len(popped')]
              /\ updates'[Len(updates')].origin = "tick"
              /\ ~did'.build => (queue # <<>> /\ popped' = Append(popped, Head(queue)))
        /\ (did'.build /\ ~C6_TickStep) => popped' = <<>>
      ]_vars

C6_Witness ==
    /\ queue = <<>> /\ popped = lastBuilt /\ Len(popped) = Len(CfgRepos)
    /\ C6_AllDistinct(repoInfos)
    /\ popped # CfgRepos
    /\ \A i, j \in DOMAIN popped :
         i < j => repoInfos[popped[i].id].pushed_at > repoInfos[popped[j].id].pushed_at

\* the requests issued in a step: those of the updates started in it and the
\* commit-stat requests of the update that went on in it
C7_Issued ==
    {updates'[i].info : i \in (Len(updates) + 1)..Len(updates')} \cup
    {updates'[i].events : i \in (Len(updates) + 1)..Len(updates')} \cup
    UNION {Range(u.stats) : u \in Range(did'.resumed)}

\* C7 -- Conditional fetch idempotence: a request carries the token stored for
\* its key at the time it is issued, if there is one; and when a request that
\* carried a token is answered while that token is still upstream's current
\* one, the outcome is Unchanged and the token cache is left as it was.
C7_ConditionalIdempotence ==
    [][ /\ \A q \in C7_Issued :
             q.tag = IF q.key \in DOMAIN etags'[q.cls] THEN <<etags'[q.cls][q.key]>> ELSE <<>>
        /\ \A x \in (IF did'.settled = <<>> THEN {} ELSE {did'.settled}) :
             ( /\ x[2] = "resp"
               /\ x[1].tag = <<UpToken(x[1].cls, x[1].key, upVer)>> )
             => /\ x[1].st = "notmod"
                /\ etags' = etags
      ]_vars

C7_Witness ==
    /\ did.settled # <<>>
    /\ did.settled[1].st = "notmod"
    /\ did.settled[1].tag = <<etags[did.settled[1].cls][did.settled[1].key]>>

\* C8 -- Enrichment: every Commit item of the stored feed carries the cached
\* CommitStat of its (repo, SHA) when there is one and no stats when there
\* is none; a rebuild runs in the step that caches a stat while a feed exists,
\* so an item built without stats carries them from the next rebuild on.
C8_Enrichment ==
    \A i \in DOMAIN feedItems :
        (feedItems[i].type = "Commit" /\ feedItems[i].sha # <<>>) =>
            LET key == <<feedItems[i].repo, feedItems[i].sha[1]>> IN
            IF key \in DOMAIN commitStats
            THEN feedItems[i].stats = <<commitStats[key]>>
            ELSE feedItems[i].stats = <<>>

C8_Witness ==
    /\ did.rebuild
    /\ \E i, j \in DOMAIN feedItems :
         /\ feedItems[i].type = "Commit" /\ feedItems[j].type = "Commit"
         /\ feedItems[i].stats = <<>>
         /\ feedItems[j].stats # <<>>
         /\ feedItems[j].stats[1].sha = feedItems[j].sha[1]
         /\ feedItems[j].stats[1].additions = CommitData(feedItems[j].sha[1]).stats[1].additions

\* a push event whose payload has a list of n >= 1 commits, each with a message
C9_WellFormedPush(ev) ==
    /\ ev.type = <<"PushEvent">>
    /\ ev.payload.commits[1] = "list"
    /\ Len(ev.payload.commits[2]) >= 1
    /\ \A k \in DOMAIN ev.payload.commits[2] : ev.payload.commits[2][k].message # <<>>

\* C9 -- Push expansion: a well-formed push event with n commits maps to
\* exactly n items of type Commit, the i-th carrying the i-th commit's SHA,
\* all with the event's timestamp and repository id.
C9_PushExpansion ==
    \A e \in DOMAIN repoEvents : \A k \in DOMAIN repoEvents[e].val :
        LET ev    == repoEvents[e].val[k]
            items == eventToFeedItems(ev)
        IN  C9_WellFormedPush(ev) =>
              /\ Len(items) = Len(ev.payload.commits[2])
              /\ \A i \in DOMAIN items :
                   /\ items[i].type = "Commit"
                   /\ items[i].sha = <<ev.payload.commits[2][i].sha>>
                   /\ items[i].when = ev.created_at
                   /\ items[i].repo = ev.repo
                   /\ ev.repo = repoEvents[e].key

C9_Witness ==
    /\ did.rebuild
    /\ \E e \in DOMAIN repoEvents : \E k \in DOMAIN repoEvents[e].val :
         /\ C9_WellFormedPush(repoEvents[e].val[k])
         /\ Len(repoEvents[e].val[k].payload.commits[2]) >= 2
         /\ \E i, j \in DOMAIN feedItems :
              /\ i < j
              /\ feedItems[i].type = "Commit" /\ feedItems[j].type = "Commit"
              /\ feedItems[i].sha = <<repoEvents[e].val[k].payload.commits[2][1].sha>>
              /\ feedItems[j].sha = <<repoEvents[e].val[k].payload.commits[2][2].sha>>

\* the upstream calls in flight, each with the update and the slot it is in
C10_InFlight ==
    {<<i, "info", 0>> : i \in {j \in DOMAIN updates : updates[j].info.st = "sent"}} \cup
    {<<i, "events", 0>> : i \in {j \in DOMAIN updates : updates[j].events.st = "sent"}} \cup
    UNION {{<<i, "commits", k>> : k \in {n \in DOMAIN updates[i].stats :
                                            updates[i].stats[n].st = "sent"}} :
           i \in DOMAIN updates}

C10_Req(c) ==
    CASE c[2] = "info"   -> updates[c[1]].info
      [] c[2] = "events" -> updates[c[1]].events
      [] OTHER           -> updates[c[1]].stats[c[3]]

\* C10 -- No two upstream calls with the same validation-token cache key
\* (resource class and key) are in flight at the same time.
C10_NoSameKeyInFlight ==
    \A c, d \in C10_InFlight :
        c # d => ~( /\ C10_Req(c).cls = C10_Req(d).cls
                    /\ C10_Req(c).key = C10_Req(d).key )

\* C10, its particular case -- the same repository is never being updated by
\* two updateRepo invocations at the same time.
C10_NoRepoUpdatedTwice ==
    \A i, j \in DOMAIN updates :
        (i # j /\ updates[i].pc # "done" /\ updates[j].pc # "done")
            => updates[i].repo.id # updates[j].repo.id

\* C11 -- Metadata failure: the continuation of an update whose metadata fetch
\* failed (error status or transport failure) leaves the RepoInfo cache
\* exactly as it was, for that repository (present and equal, or absent) and
\* for every other one; the cache changes only in the continuation of an
\* update whose metadata fetch succeeded, and only at that repository.
C11_InfoKeptOnFailure ==
    [][ /\ \A u \in Range(did'.resumed) :
             u.info.st = "fail" => repoInfos' = repoInfos
        /\ repoInfos' # repoInfos =>
             \E u \in Range(did'.resumed) :
                /\ u.info.st = "ok"
                /\ \A r \in (DOMAIN repoInfos) \ {u.repo.id} :
                     r \in DOMAIN repoInfos' /\ repoInfos'[r] = repoInfos[r]
      ]_vars

C11_Witness ==
    /\ did.resumed # <<>>
    /\ did.resumed[1].info.st = "fail"
    /\ did.resumed[1].origin = "tick"
    /\ did.resumed[1].repo.id \in DOMAIN repoInfos
    /\ \E r \in DOMAIN repoInfos : r # did.resumed[1].repo.id

\* C12 -- Events failure: the continuation of an update whose events fetch
\* failed leaves the event-batch cache and the commit-stat cache exactly as
\* they were, and the update issues no commit-stat fetch: it returns with
\* none.
C12_EventsKeptOnFailure ==
    [][ \A u \in Range(did'.resumed) :
          u.events.st = "fail" =>
             /\ repoEvents' = repoEvents
             /\ commitStats' = commitStats
             /\ u.stats = <<>> /\ u.toFetch = <<>> /\ u.pc = "fetch"
             /\ \A v \in Range(updates') :
                  (v.repo = u.repo /\ v.origin = u.origin /\ v.events = u.events)
                      => (v.stats = <<>> /\ v.pc = "done")
             /\ \A v \in Range(did'.returned) : v.stats = <<>>
      ]_vars

C12_Witness ==
    /\ did.resumed # <<>>
    /\ did.resumed[1].events.st = "fail"
    /\ did.resumed[1].origin = "tick"
    /\ HasBatch(repoEvents, did.resumed[1].repo.id)
    /\ PushShas(OGet(repoEvents, did.resumed[1].repo.id)) # <<>>

\* an update in which a fetch failed or the scan of the batch threw
C13_Failed(u) ==
    \/ u.info.st = "fail" \/ u.events.st = "fail"
    \/ \E k \in DOMAIN u.stats : u.stats[k].st = "fail"
    \/ ScanThrows(FulfilledEvents(u))

\* C13 -- Schedule under failure: the step in which a tick's update returns
\* after a failure rebuilds the feed as its last act and leaves the tick timer
\* and the queue as they were, the timer active; in the state it leads to a
\* tick can fire (once no other update is in flight, whatever the bounds on
\* overlapping ticks), and the tick that fires updates the head of the queue
\* (of the rebuilt queue when the queue was used up).
C13_ScheduleSurvivesFailure ==
    [][ /\ \A u \in Range(did'.returned) :
             C13_Failed(u) =>
                /\ did'.rebuild
                /\ did'.log # <<>> /\ did'.log[Len(did'.log)] = "rebuild"
                /\ feedItems' = rebuildGlobalFeed(feedLimit, repoEvents', commitStats')
                /\ timer' = timer /\ timers' = timers
                /\ timer' # <<>> /\ timer'[1] \in timers'
                /\ queue' = queue /\ phase' = "running"
        /\ \A u \in Range(did.returned) :
             C13_Failed(u) =>
                /\ updates = <<>> => ENABLED (\E t \in timers : Tick(t))
                /\ C6_TickStep =>
                     /\ updates'[Len(updates')].origin = "tick"
                     /\ updates'[Len(updates')].repo =
                           IF queue # <<>> THEN Head(queue)
                           ELSE Head(SortedRepos(repoInfos))
                     /\ timers' = timers
      ]_vars

C13_Witness ==
    /\ did.returned # <<>>
    /\ did.returned[1].events.st = "fail"
    /\ did.rebuild
    /\ queue # <<>>
    /\ timer # <<>> /\ timer[1] \in timers

\* C14 -- Sorted feed: in every reachable state the stored feed is in
\* descending timestamp order and within the configured limit; and it is
\* always a whole result of a rebuild: a step either leaves the stored feed as
\* it is or replaces it by the sorted, truncated items of the caches at the
\* end of the step.
C14_FeedSorted ==
    [][ /\ \A i, j \in DOMAIN feedItems' : i < j => feedItems'[i].when >= feedItems'[j].when
        /\ Len(feedItems') <= feedLimit
        /\ \/ feedItems' = feedItems
           \/ /\ did'.rebuild
              /\ feedItems' = rebuildGlobalFeed(feedLimit, repoEvents', commitStats')
      ]_vars

C14_Witness ==
    /\ Len(feedItems) >= 2
    /\ feedItems[1].when > feedItems[2].when
    /\ \E i, j \in DOMAIN Candidates(repoEvents, commitStats) :
         /\ i < j
         /\ Candidates(repoEvents, commitStats)[i].when < Candidates(repoEvents, commitStats)[j].when
         /\ Candidates(repoEvents, commitStats)[j] = feedItems[1]

\* the upstream call that settled in the step, if one did
C15_Call(d) == IF d.settled = <<>> THEN {} ELSE {d.settled}

\* C15 -- Rate budget: a call that receives a response carrying the limit
\* metadata leaves the rate budget equal to the limit / remaining / reset of
\* that response, whether the response is a success, an Unchanged or an error
\* status; a call that receives no response leaves the budget as it was.
C15_RateFromEveryResponse ==
    [][ \A x \in C15_Call(did') :
          /\ (x[2] \in {"resp", "httperr"} /\ x[3] # <<>>) => rate' = x[3][1]
          /\ x[2] = "resp" => (x[1].st \in {"ok", "notmod"} /\ x[3] # <<>>)
          /\ x[2] = "httperr" => x[1].st = "fail"
          /\ x[2] = "neterr" => (x[1].st = "fail" /\ rate' = rate)
      ]_vars

C15_Witness ==
    /\ did.settled # <<>>
    /\ did.settled[2] = "httperr"
    /\ did.settled[3] # <<>>
    /\ rate = did.settled[3][1]
    /\ rate.limit = 60

\* C16 -- Unchanged metadata: when the metadata fetch of an update came back
\* Unchanged, getRepoInfo handed over no value, and the continuation of the
\* update leaves the RepoInfo cache exactly as it was.
C16_InfoKeptOnUnchanged ==
    [][ \A u \in Range(did'.resumed) :
          u.info.st = "notmod" =>
             /\ u.info.data = <<>>
             /\ repoInfos' = repoInfos
      ]_vars

C16_Witness ==
    /\ did.resumed # <<>>
    /\ did.resumed[1].info.st = "notmod"
    /\ did.resumed[1].events.st = "ok"
    /\ did.resumed[1].repo.id \in DOMAIN repoInfos
    /\ repoInfos[did.resumed[1].repo.id].pushed_at > 0

\* C17 -- Token cache frame: the token cache changes only in the step in which
\* a call settles with a success response, and then only in that call's
\* resource class and at its key, where the entry becomes the token of the
\* response; an Unchanged response and every error outcome leave the whole
\* cache as it was; no entry is ever removed.
C17_TokenCacheFrame ==
    [][ /\ \A x \in C15_Call(did') :
             IF x[1].st = "ok"
             THEN /\ x[1].key \in DOMAIN etags'[x[1].cls]
                  /\ etags'[x[1].cls][x[1].key] = UpToken(x[1].cls, x[1].key, upVer)
                  /\ \A cls \in DOMAIN etags : \A k \in DOMAIN etags[cls] :
                       (cls # x[1].cls \/ k # x[1].key) =>
                           (k \in DOMAIN etags'[cls] /\ etags'[cls][k] = etags[cls][k])
                  /\ \A cls \in DOMAIN etags' : \A k \in DOMAIN etags'[cls] :
                       (cls # x[1].cls \/ k # x[1].key) => k \in DOMAIN etags[cls]
             ELSE etags' = etags
        /\ did'.settled = <<>> => etags' = etags
        /\ DOMAIN etags' = DOMAIN etags
        /\ \A cls \in DOMAIN etags : DOMAIN etags[cls] \subseteq DOMAIN etags'[cls]
      ]_vars

C17_Witness ==
    /\ did.settled # <<>>
    /\ did.settled[1].st = "ok"
    /\ did.settled[1].tag # <<>>
    /\ etags[did.settled[1].cls][did.settled[1].key] # did.settled[1].tag[1]
    /\ \E k \in DOMAIN etags[did.settled[1].cls] : k # did.settled[1].key

\* C18 -- Read-time enrichment: the items an /api/feed request is answered
\* with are the items of the stored feed, in the same order and equal to them
\* except for the stats; every Commit item with a SHA whose (repo, SHA) is in
\* the commit-stat cache carries that cached CommitStat; the request leaves
\* the store as it was.
C18_ReadTimeEnrichment ==
    [][ \A out \in Range(did'.served) :
          /\ Len(out) = Len(feedItems)
          /\ \A i \in DOMAIN out :
               /\ [out[i] EXCEPT !.stats = <<>>] = [feedItems[i] EXCEPT !.stats = <<>>]
               /\ IF /\ feedItems[i].type = "Commit" /\ feedItems[i].sha # <<>>
                     /\ <<feedItems[i].repo, feedItems[i].sha[1]>> \in DOMAIN commitStats
                  THEN out[i].stats = <<commitStats[<<feedItems[i].repo, feedItems[i].sha[1]>>]>>
                  ELSE out[i] = feedItems[i]
          /\ UNCHANGED <<repoInfos, repoEvents, commitStats, feedItems>>
      ]_vars

C18_Witness ==
    /\ did.served # <<>>
    /\ Len(did.served[1]) >= 2
    /\ \E i \in DOMAIN did.served[1] :
         /\ did.served[1][i].type = "Commit"
         /\ did.served[1][i].stats # <<>>
         /\ did.served[1][i].stats[1] = commitStats[<<did.served[1][i].repo, did.served[1][i].sha[1]>>]

\* C19 -- Bulk-load ordering: the bulk load starts once, from the initial
\* state, with one update per configured repository; until it returns there
\* is no tick interval, no queue, no tick update and no rebuild; it returns
\* when every one of its updates has settled, and then the feed is rebuilt,
\* then the queue is built, then the tick interval is set (and main rebuilds
\* the feed once more); afterwards there is no bulk load again.
C19_BulkLoadOrdering ==
    [][ /\ phase' = "init" => phase = "init"
        /\ phase' = "bulk" => phase \in {"init", "bulk"}
        /\ (phase = "init" /\ phase' # "init") =>
              /\ Len(updates') = Len(CfgRepos)
              /\ \A i \in DOMAIN updates' :
                   updates'[i].repo = CfgRepos[i] /\ updates'[i].origin = "bulk"
        /\ phase = "running" =>
              /\ phase' = "running" /\ did'.bulk = <<>>
              /\ \A u \in Range(updates') : u.origin = "tick"
        /\ phase' # "running" =>
              /\ timers' = {} /\ timer' = <<>> /\ queue' = <<>> /\ lastBuilt' = <<>>
              /\ did'.log = <<>> /\ feedItems' = <<>>
              /\ \A u \in Range(updates') : u.origin = "bulk"
        /\ did'.bulk # <<>> =>
              /\ phase = "bulk" /\ phase' = "running"
              /\ Len(did'.bulk[1]) = Len(CfgRepos)
              /\ \A u \in Range(did'.bulk[1]) :
                   /\ Settled(u.info) /\ Settled(u.events)
                   /\ \A k \in DOMAIN u.stats : Settled(u.stats[k])
              /\ did'.log = <<"rebuild", "build", "timer", "rebuild">>
              /\ timer' # <<>> /\ timers' = {timer'[1]}
              /\ updates' = <<>>
        /\ (phase = "bulk" /\ phase' = "running") => did'.bulk # <<>>
      ]_vars

C19_Witness ==
    /\ did.bulk # <<>>
    /\ \E u \in Range(did.bulk[1]) : u.events.st = "fail"
    /\ \E u \in Range(did.bulk[1]) : u.stats # <<>>
    /\ feedItems # <<>>
    /\ Len(queue) = Len(CfgRepos)

\* C20 -- Rebuild after the tick's writes: updateRepo writes the metadata and
\* the batch it fetched in the step in which it goes on past its two fetches;
\* the tick's update returns in that step or a later one, when none of its
\* requests is still in flight, and that step stores every commit stat the
\* update fetched and then rebuilds the feed, as its last act, from the caches
\* as the step leaves them; once the bulk load is over the feed is rebuilt in
\* no other step.
C20_RebuildSeesOwnWrites ==
    [][ /\ \A u \in Range(did'.resumed) :
             /\ u.info.st = "ok" =>
                   /\ u.repo.id \in DOMAIN repoInfos'
                   /\ repoInfos'[u.repo.id].pushed_at = u.info.data[1].pushed_at
             /\ (u.events.st = "ok" /\ u.events.data[1] # <<>>) =>
                   /\ HasBatch(repoEvents', u.repo.id)
                   /\ OGet(repoEvents', u.repo.id) = u.events.data[1]
        /\ \A u \in Range(did'.returned) :
             /\ u.origin = "tick"
             /\ Settled(u.info) /\ Settled(u.events)
             /\ \A k \in DOMAIN u.stats : Settled(u.stats[k])
             /\ u.pc = "fetch" => did'.resumed = <<u>>
             /\ u.pc = "stats" => Len(u.stats) = Len(u.toFetch)
             /\ \A k \in DOMAIN u.stats :
                   u.stats[k].st = "ok" =>
                      /\ u.stats[k].key \in DOMAIN commitStats'
                      /\ commitStats'[u.stats[k].key] = u.stats[k].data[1]
             /\ did'.rebuild /\ did'.log = <<"rebuild">>
             /\ feedItems' = rebuildGlobalFeed(feedLimit, repoEvents', commitStats')
        /\ (phase = "running" /\ did'.rebuild) => did'.returned # <<>>
      ]_vars

C20_Witness ==
    /\ did.returned # <<>>
    /\ did.returned[1].info.st = "ok"
    /\ did.returned[1].events.st = "ok"
    /\ Len(did.returned[1].stats) >= 2
    /\ \A k \in DOMAIN did.returned[1].stats : did.returned[1].stats[k].st = "ok"
    /\ \E i \in DOMAIN feedItems :
         /\ feedItems[i].repo = did.returned[1].repo.id
         /\ feedItems[i].sha # <<>>
         /\ feedItems[i].stats = <<did.returned[1].stats[1].data[1]>>

\* C21 -- Round robin: a built queue holds every configured repository once;
\* the repositories taken since the last build followed by the queue are the
\* queue as built, so N ticks without a build in between update every
\* repository once; every tick starts exactly one update, of the head of the
\* queue, which it removes; the tick that finds the queue empty first builds
\* it from the cached metadata and then takes its head.
C21_RoundRobin ==
    [][ /\ lastBuilt' # <<>> =>
              /\ Len(lastBuilt') = Len(CfgRepos)
              /\ \A i \in DOMAIN CfgRepos :
                   Cardinality({j \in DOMAIN lastBuilt' : lastBuilt'[j] = CfgRepos[i]}) = 1
        /\ popped' \o queue' = lastBuilt'
        /\ did'.tick =>
              /\ Len(updates') = Len(updates) + 1
              /\ SubSeq(updates', 1, Len(updates)) = updates
              /\ updates'[Len(updates')].origin = "tick"
              /\ updates'[Len(updates')].pc = "fetch"
              /\ IF queue # <<>>
                 THEN /\ ~did'.build
                      /\ updates'[Len(updates')].repo = Head(queue)
                      /\ queue' = Tail(queue)
                      /\ popped' = Append(popped, Head(queue))
                 ELSE /\ did'.build /\ did'.log = <<"build">>
                      /\ lastBuilt' = SortedRepos(repoInfos)
                      /\ updates'[Len(updates')].repo = Head(lastBuilt')
                      /\ queue' = Tail(lastBuilt')
                      /\ popped' = <<Head(lastBuilt')>>
      ]_vars

C21_Witness ==
    /\ did.tick /\ did.build
    /\ Len(popped) = 1 /\ Len(queue) = Len(CfgRepos) - 1
    /\ updates # <<>> /\ updates[Len(updates)].repo = popped[1]

\* C22 -- No starvation: under fair timers every configured repository is
\* updated by a tick again and again.
C22_NoStarvation ==
    \A i \in DOMAIN CfgRepos :
        []<>(did.tick /\ updates # <<>> /\ updates[Len(updates)].repo = CfgRepos[i])

C23_AllCached(infos) == \A r \in RepoIds : r \in DOMAIN infos

\* C23 -- Requeue: a firing of the requeue timer replaces the queue, whatever
\* it held, by an ordering of all configured repositories (each once, by
\* descending cached last-pushed timestamp when every repository has cached
\* info, so that its head has the latest one), sets a tick interval and leaves
\* no other one active, and changes neither the Store nor the updates in flight; the
\* first tick after a queue was built by start() takes the head of that queue.
C23_Requeue ==
    [][ /\ did'.requeue =>
              /\ did'.log = <<"build", "timer">>
              /\ queue' = SortedRepos(repoInfos)
              /\ Len(queue') = Len(CfgRepos)
              /\ \A i \in DOMAIN CfgRepos : \E j \in DOMAIN queue' : queue'[j] = CfgRepos[i]
              /\ C23_AllCached(repoInfos) =>
                    \A j \in DOMAIN queue' :
                        repoInfos[queue'[1].id].pushed_at >= repoInfos[queue'[j].id].pushed_at
              /\ lastBuilt' = queue' /\ popped' = <<>>
              /\ timer' # <<>> /\ timers' = {timer'[1]}
              /\ UNCHANGED <<repoInfos, repoEvents, commitStats, feedItems, etags, rate,
                             updates>>
        /\ (did'.tick /\ popped = <<>> /\ queue # <<>>) =>
              /\ queue = lastBuilt
              /\ updates'[Len(updates')].repo = Head(lastBuilt)
              /\ updates'[Len(updates')].origin = "tick"
      ]_vars

\* a requeue has just replaced a queue that had not drained (the update of the
\* last tick is still in flight, and is of the repository that is the head
\* again), with every repository's info cached and different timestamps
C23_Witness ==
    /\ did.requeue
    /\ C23_AllCached(repoInfos)
    /\ Len(queue) = Len(CfgRepos) /\ popped = <<>>
    /\ repoInfos[queue[1].id].pushed_at > repoInfos[queue[Len(queue)].id].pushed_at
    /\ overlaps = 0 /\ Len(updates) = 1
    /\ updates[1].origin = "tick" /\ updates[1].repo = queue[1]

\* the commit-stat requests the updates in flight have issued: <<update, slot>>
C24_StatCalls ==
    UNION {{<<i, k>> : k \in DOMAIN updates[i].stats} : i \in DOMAIN updates}

\* C24 -- At most one fetch per (repository, SHA) pair: no two commit-stat
\* requests issued by the updates in flight, in the same update or in different
\* ones, are for the same pair.
C24_AtMostOnce ==
    \A c, d \in C24_StatCalls :
        c # d => updates[c[1]].stats[c[2]].key # updates[d[1]].stats[d[2]].key

\* C25 -- Within one updateRepo invocation the SHAs selected for the
\* commit-stat fan-out are pairwise distinct.
C25_DistinctFanout ==
    \A i \in DOMAIN updates :
        \A j, k \in DOMAIN updates[i].toFetch :
            j # k => updates[i].toFetch[j] # updates[i].toFetch[k]

\* the commit SHAs of the cached batch of a repository that have no cached
\* CommitStat
C26_Remaining(id, rEvents, cStats) ==
    IF OHas(rEvents, id)
    THEN {sha \in Range(PushShas(OGet(rEvents, id))) : StatKey(id, sha) \notin DOMAIN cStats}
    ELSE {}

\* C26 -- Enrichment progress: while no upstream call has failed, an update by
\* a tick, the only update in flight, whose events fetch was answered and
\* whose repository's cached batch still holds commit SHAs without a cached
\* CommitStat, goes on to fetch statistics for some of them.
C26_EnrichmentProgress ==
    [][ \A u \in Range(did'.resumed) :
            ( /\ fails' = 0 /\ Len(updates) = 1 /\ u.origin = "tick"
              /\ u.info.st \in {"ok", "notmod"} /\ u.events.st \in {"ok", "notmod"}
              /\ C26_Remaining(u.repo.id, repoEvents', commitStats) # {} )
            => /\ u.stats # <<>>
               /\ \A k \in DOMAIN u.stats :
                     u.stats[k].key[2] \in C26_Remaining(u.repo.id, repoEvents', commitStats)
      ]_vars

\* C27 -- The continuation of an update whose events fetch returned a success
\* (non-Unchanged) response makes that response's batch the cached batch of
\* the repository; after an Unchanged response or a failure the cached
\* batches are left as they are.
C27_BatchOverwritten ==
    [][ \A u \in Range(did'.resumed) :
            IF u.events.st = "ok"
            THEN /\ OHas(repoEvents', u.repo.id)
                 /\ OGet(repoEvents', u.repo.id) = u.events.data[1]
            ELSE repoEvents' = repoEvents
      ]_vars

\* C28 -- An upstream call that settles without limit metadata (a response
\* that carries none, or a transport failure without any response) leaves the
\* rate budget at its previous value.
C28_RateFrame ==
    [][ (did'.settled # <<>> /\ did'.settled[3] = <<>>) => rate' = rate ]_vars

\* the fetches of a fan-out that succeeded
C29_Fulfilled(u) == {k \in DOMAIN u.stats : u.stats[k].st = "ok"}

\* C29 -- Independent commit-stat fetches: when the fan-out of an update has
\* settled, every fetch of it that succeeded has its CommitStat in the cache
\* under its own (repository, SHA) key, whatever happened to the others; an
\* entry is added or changed only at the key of a fetch that succeeded; and
\* the update returns: a tick goes on to rebuild the feed, the bulk load counts
\* the update as finished.
C29_IndependentFetches ==
    [][ \A u \in Range(did'.stored) :
            /\ \A k \in DOMAIN u.stats : Settled(u.stats[k])
            /\ \A k \in C29_Fulfilled(u) :
                  /\ u.stats[k].key = StatKey(u.repo.id, u.toFetch[k])
                  /\ u.stats[k].key \in DOMAIN commitStats'
                  /\ commitStats'[u.stats[k].key] = u.stats[k].data[1]
            /\ \A key \in DOMAIN commitStats' :
                  \/ key \in DOMAIN commitStats /\ commitStats'[key] = commitStats[key]
                  \/ \E k \in C29_Fulfilled(u) : u.stats[k].key = key
            /\ DOMAIN commitStats \subseteq DOMAIN commitStats'
            /\ IF u.origin = "tick"
               THEN did'.returned = <<u>> /\ did'.rebuild /\ Len(updates') = Len(updates) - 1
               ELSE \/ did'.bulk # <<>> /\ updates' = <<>> /\ phase' = "running"
                    \/ \E i \in DOMAIN updates' :
                          /\ updates'[i].pc = "done" /\ updates[i].pc # "done"
                          /\ updates'[i].stats = u.stats
      ]_vars

\* a fan-out settled in which a fetch failed and a later one succeeded, and
\* the CommitStat of the later one is cached
C29_Witness ==
    /\ did.stored # <<>>
    /\ \E j, k \in DOMAIN did.stored[1].stats :
         /\ j < k
         /\ did.stored[1].stats[j].st = "fail"
         /\ did.stored[1].stats[k].st = "ok"
         /\ did.stored[1].stats[k].key \in DOMAIN commitStats
         /\ did.stored[1].stats[j].key \notin DOMAIN commitStats

\* a raw event whose items cannot be built
C30_Malformed(ev) ==
    /\ ev.type = <<"PushEvent">>
    /\ \/ ev.payload.commits[1] = "bad"
       \/ /\ ev.payload.commits[1] = "list"
          /\ \E i \in DOMAIN ev.payload.commits[2] : ev.payload.commits[2][i].message = <<>>

\* the cached batches without event k of entry e
C30_Without(rEvents, e, k) == [rEvents EXCEPT ![e].val = RemoveAt(@, k)]

\* C30 -- Malformed-event isolation: a malformed event contributes no feed
\* item, and the feed a rebuild produces is the feed that would be built from
\* the same cached batches and statistics with that event removed.
C30_MalformedIsolation ==
    did.rebuild =>
        \A e \in DOMAIN repoEvents : \A k \in DOMAIN repoEvents[e].val :
            C30_Malformed(repoEvents[e].val[k]) =>
                /\ eventToFeedItems(repoEvents[e].val[k]) = <<>>
                /\ feedItems = rebuildGlobalFeed(feedLimit,
                                                 C30_Without(repoEvents, e, k), commitStats)

\* a rebuild over a batch that holds a malformed push event whose first commit
\* is well formed, with another event of the same batch in the feed and the
\* feed not truncated
C30_Witness ==
    /\ did.rebuild
    /\ feedItems # <<>> /\ Len(feedItems) < feedLimit
    /\ \E e \in DOMAIN repoEvents : \E k \in DOMAIN repoEvents[e].val :
         /\ C30_Malformed(repoEvents[e].val[k])
         /\ repoEvents[e].val[k].payload.commits[1] = "list"
         /\ repoEvents[e].val[k].payload.commits[2][1].message # <<>>
         /\ \E i \in DOMAIN feedItems : feedItems[i].repo = repoEvents[e].key

\* C31 -- Independent metadata and events requests: the continuation of an
\* update whose metadata fetch failed and whose events fetch returned a batch
\* applies the batch (a non-empty one is cached, and unless its scan throws,
\* statistics are requested for its commit SHAs that are not cached, as many
\* as there are up to the fan-out bound); the continuation of an update whose
\* events fetch failed and whose metadata fetch returned a RepoInfo caches it
\* with the configured display label.
C31_IndependentRequests ==
    [][ \A u \in Range(did'.resumed) :
            /\ (u.info.st = "fail" /\ u.events.st = "ok") =>
                  LET batch == u.events.data[1]
                      todo  == {sha \in Range(PushShas(batch)) :
                                   StatKey(u.repo.id, sha) \notin DOMAIN commitStats}
                  IN  /\ batch # <<>> =>
                            /\ OHas(repoEvents', u.repo.id)
                            /\ OGet(repoEvents', u.repo.id) = batch
                      /\ ~ScanThrows(batch) =>
                            /\ Len(u.stats) >= Min(Cardinality(todo), StatFanout)
                            /\ \A k \in DOMAIN u.stats :
                                  /\ u.stats[k].cls = "commits"
                                  /\ u.stats[k].key[1] = u.repo.id
                                  /\ u.stats[k].key[2] \in todo
                      /\ repoInfos' = repoInfos
            /\ (u.events.st = "fail" /\ u.info.st = "ok") =>
                  /\ u.repo.id \in DOMAIN repoInfos'
                  /\ repoInfos'[u.repo.id] =
                        [u.info.data[1] EXCEPT !.displayName = <<u.repo.name>>]
                  /\ repoEvents' = repoEvents
      ]_vars

\* an update resumed with a failed metadata fetch and a batch with push
\* commits, whose statistics it requested
C31_Witness ==
    /\ did.resumed # <<>>
    /\ did.resumed[1].info.st = "fail" /\ did.resumed[1].events.st = "ok"
    /\ did.resumed[1].stats # <<>>
    /\ OHas(repoEvents, did.resumed[1].repo.id)
    /\ OGet(repoEvents, did.resumed[1].repo.id) = did.resumed[1].events.data[1]
    /\ did.resumed[1].repo.id \notin DOMAIN repoInfos

\* C32 -- In a freshly built queue any two repositories that both have
\* cached RepoInfo are in descending last-pushed order relative to each other,
\* also when other repositories have none, and the repositories without
\* cached RepoInfo are in their configured order relative to each other.
C32_PartialOrdering ==
    did.build =>
        \A i, j \in DOMAIN queue :
            i < j =>
                /\ (queue[i].id \in DOMAIN repoInfos /\ queue[j].id \in DOMAIN repoInfos)
                      => repoInfos[queue[i].id].pushed_at >= repoInfos[queue[j].id].pushed_at
                /\ (queue[i].id \notin DOMAIN repoInfos /\ queue[j].id \notin DOMAIN repoInfos)
                      => \E x, y \in DOMAIN ThreeRepos :
                            x < y /\ ThreeRepos[x] = queue[i] /\ ThreeRepos[y] = queue[j]

\* C33 -- CommitStat entries are cached indefinitely: no step removes a key
\* from the commit-stat cache, and every entry has the SHA of its key.
C33_NeverEvicted ==
    [][ /\ DOMAIN commitStats \subseteq DOMAIN commitStats'
        /\ \A key \in DOMAIN commitStats' : commitStats'[key].sha = key[2]
      ]_vars

\* the results of a fan-out have just been stored into a cache that holds
\* entries of an earlier, different fan-out
C33_Witness ==
    /\ did.stored # <<>>
    /\ \E k \in DOMAIN did.stored[1].stats :
         /\ did.stored[1].stats[k].st = "ok"
         /\ did.stored[1].stats[k].key \in DOMAIN commitStats
    /\ \E key \in DOMAIN commitStats :
         \A k \in DOMAIN did.stored[1].stats : did.stored[1].stats[k].key # key

\* C34 -- Metadata cache coherence: when no update is in flight, a
\* repository whose stored metadata validation token is upstream's current
\* token has upstream's current metadata cached, with its configured display
\* label.
C34_MetadataCoherence ==
    updates = <<>> =>
        \A i \in DOMAIN CfgRepos :
            LET r == CfgRepos[i].id IN
            (r \in DOMAIN etags.info /\ etags.info[r] = UpToken("info", r, upVer)) =>
                /\ r \in DOMAIN repoInfos
                /\ repoInfos[r] = [Parsed("info", r, upVer) EXCEPT
                                      !.displayName = <<CfgRepos[i].name>>]

\* C35 -- Quiescent feed consistency: once the bulk load has completed,
\* whenever no update is in flight the stored feed is the result of
\* rebuildGlobalFeed on the cached event batches and commit statistics (so
\* rebuilding again would give the same feed).
C35_QuiescentFeed ==
    (phase = "running" /\ updates = <<>>) =>
        feedItems = rebuildGlobalFeed(feedLimit, repoEvents, commitStats)

\* a tick's update that received and cached a new non-empty batch has just
\* returned, no update is in flight, and the newest event of the batch is in
\* the feed
C35_Witness ==
    /\ phase = "running" /\ updates = <<>>
    /\ did.returned # <<>>
    /\ did.returned[1].events.st = "ok"
    /\ did.returned[1].events.data[1] # <<>>
    /\ OHas(repoEvents, did.returned[1].repo.id)
    /\ OGet(repoEvents, did.returned[1].repo.id) = did.returned[1].events.data[1]
    /\ \E i \in DOMAIN feedItems :
         /\ feedItems[i].repo = did.returned[1].repo.id
         /\ feedItems[i].when = did.returned[1].events.data[1][1].created_at

\* the updates in flight and the ones the last step resumed or finished
C36_Updates ==
    Range(updates) \cup Range(did.resumed) \cup Range(did.returned) \cup Range(did.stored)

\* C36 -- Request bound per update: an update has issued one metadata
\* request, one events request and at most 5 commit-stat requests, at most 7
\* requests in all; it has issued commit-stat requests only if its metadata
\* and its events request have both settled, and none if the events result
\* was Unchanged or a failure.
C36_RequestBound ==
    \A u \in C36_Updates :
        /\ u.info.cls = "info" /\ u.info.key = u.repo.id
        /\ u.events.cls = "events" /\ u.events.key = u.repo.id
        /\ \A k \in DOMAIN u.stats : u.stats[k].cls = "commits"
        /\ Len(u.stats) <= 5
        /\ 2 + Len(u.stats) <= 7
        /\ u.stats # <<>> =>
              /\ Settled(u.info) /\ Settled(u.events)
              /\ u.events.st = "ok"
        /\ (u.pc = "stats" /\ u \in Range(updates)) => u.stats # <<>>

\* an update with seven requests issued, the last commit-stat request still
\* in flight
C36_Witness ==
    \E i \in DOMAIN updates :
        /\ updates[i].pc = "stats"
        /\ Len(updates[i].stats) = 5
        /\ updates[i].stats[4].st = "ok"
        /\ updates[i].stats[5].st = "sent"

\* C37 -- Single tick timer: at most one tick interval is active, and it is
\* the one the scheduler holds in its timer field; none is active before the
\* first start() and one is from then on.
C37_SingleTimer ==
    /\ Cardinality(timers) <= 1
    /\ timers = {timer[k] : k \in DOMAIN timer}
    /\ (timer # <<>>) = (phase = "running")

\* start() has run again for a requeue, after the start() of the bulk load,
\* and one tick interval is active
C37_Witness ==
    /\ did.requeue
    /\ timer # <<>> /\ Cardinality(timers) = 1 /\ timer[1] \in timers
    /\ did.log = <<"build", "timer">>

\* C38 -- Queue invariant: the queue holds configured repositories only, none
\* twice, and is a suffix of the ordering the last queue build produced; a
\* step changes the queue only by building it, by removing its head in a
\* tick, or by both in the tick that finds it empty.
C38_QueueInvariant ==
    [][ /\ \A j \in DOMAIN queue' : \E i \in DOMAIN CfgRepos : queue'[j] = CfgRepos[i]
        /\ \A j, k \in DOMAIN queue' : j # k => queue'[j].id # queue'[k].id
        /\ \E n \in 0..Len(lastBuilt') : queue' = SubSeq(lastBuilt', n + 1, Len(lastBuilt'))
        /\ queue' # queue =>
              \/ did'.build /\ ~did'.tick /\ queue' = lastBuilt'
              \/ did'.build /\ did'.tick /\ queue = <<>> /\ queue' = Tail(lastBuilt')
              \/ ~did'.build /\ did'.tick /\ queue # <<>> /\ queue' = Tail(queue)
        /\ Len(queue') > Len(queue) => did'.build
        /\ (Len(queue') < Len(queue) /\ ~did'.build) => did'.tick
      ]_vars

\* a tick has taken the head of a queue of two: the queue is the proper,
\* non-empty suffix of the last build
C38_Witness ==
    /\ did.tick /\ ~did.build
    /\ Len(lastBuilt) = 2 /\ queue = Tail(lastBuilt) /\ popped = <<Head(lastBuilt)>>

\* the exclusion itself: at most one cycle is in progress, the flag is set
\* exactly while one is, a trigger that finds the flag set changes nothing and
\* one that finds it clear starts a cycle, and a cycle that ends clears it
C39_Exclusion ==
    /\ Len(audit'.cycles) <= 1
    /\ audit'.running = (audit'.cycles # <<>>)
    /\ audit'.last = "skipped" =>
          /\ audit.running
          /\ audit' = [audit EXCEPT !.last = "skipped"]
    /\ audit'.last = "started" =>
          /\ ~audit.running /\ audit.cycles = <<>>
          /\ Len(audit'.cycles) = 1 /\ audit'.reports = audit.reports
    /\ audit'.last \in {"ended", "aborted"} =>
          /\ audit.running /\ ~audit'.running /\ audit'.cycles = <<>>

\* C39 -- Code-audit mutual exclusion: at most one audit cycle is in progress
\* at any time; a cycle triggered while another is running returns without
\* auditing anything; and when a cycle ends, also after the audit of a
\* repository or the setup of the cycle has failed, the running flag is
\* clear and the scheduler is still there for the next trigger to start a
\* new cycle.
C39_AuditMutex ==
    [][ /\ C39_Exclusion
        /\ audit'.last \in {"ended", "aborted"} =>
              /\ ~audit'.running
              /\ audit'.started /\ audit'.enabled /\ ~audit'.exited
      ]_vars

====
